---- MODULE Spec2Model ----
(***************************************************************************)
(* Object-graph duplication engine of prtcl.                               *)
(*                                                                         *)
(*   @prtcl/copy  : clone, clone.shallow, clone.deep                       *)
(*   @prtcl/prtcl : defaultClone, defaultMutableClone,                     *)
(*                  defaultReadonlyClone, defaultFlat                      *)
(*                                                                         *)
(* An input graph is a finite heap of composites.  Every composite has a   *)
(* kind, a frozen flag, a custom-handler flag (Prtcl.toClone), what its    *)
(* toJSON and Prtcl.toFlat properties hold, the built-in checks it passes, *)
(* a class-instance flag and an ordered list of enumerated members.  One   *)
(* behaviour is one top-level call on one input graph; a traversal takes   *)
(* one step per loop iteration.                                            *)
(*                                                                         *)
(*   Spec          : every entry point on graphs whose arrays are dense    *)
(*   FairSpec      : Spec with a traversal that keeps taking steps         *)
(*   SparseSpec    : the same calls on graphs whose arrays may have holes  *)
(*   ReentrantSpec : Spec plus handlers that call clone.deep themselves    *)
(*   GuardSpec     : Prtcl.impl on values decorated with cloneBy and       *)
(*                   useToClone                                            *)
(***************************************************************************)
EXTENDS Integers, Sequences, FiniteSets, TLC

\* Number of composites of the input graph.
NObj == 2
\* Total number of members (edges) of the input graph.
MaxEdges == 2

Obj == 1..NObj

\* A traversal that creates more shells than this is cut off.
MaxShells == NObj + MaxEdges + 1

-----------------------------------------------------------------------------
(* Values.  Every value is a pair <<tag, n>>, so that identities compare.   *)

P == <<"prim", 0>>
F == <<"func", 0>>
None == <<"none", 0>>
Undefined == <<"undef", 0>>
In(o) == <<"in", o>>
Shell(n) == <<"shell", n>>
Copy(n) == <<"copy", n>>
HRes(n) == <<"hres", n>>

\* Member values: a primitive or a composite; a record may also hold a function.
ObjVal == {In(o) : o \in Obj}
Val == {P} \cup ObjVal
RecVal == {P, F} \cup ObjVal

\* Composite (non-null object); functions and primitives are not.
isObject(v) == v[1] \in {"in", "shell", "copy", "hres"}

\* The [key, value] arrays Array.from(map) creates: one new array for the
\* i-th entry of the Map m, numbered after the composites of the input.
PairIds == (NObj + 1)..(NObj + NObj * MaxEdges)
PairId(m, i) == NObj + (m - 1) * MaxEdges + i
Pair(m, i) == <<"pair", PairId(m, i)>>
PairMap(p) == ((p - NObj - 1) \div MaxEdges) + 1
PairIndex(p) == ((p - NObj - 1) % MaxEdges) + 1

\* The place of an array element that does not exist: [ , 1] has one at 0.
Hole == <<"hole", 0>>

Idx(i) == <<"idx", i>>
Key(i) == <<"key", i>>
MKey(i) == <<"mkey", i>>

-----------------------------------------------------------------------------
(* Input graphs.                                                           *)

Blank ==
    [kind |-> "record", frozen |-> FALSE, custom |-> FALSE,
     toJSON |-> "none", toFlat |-> "none",
     tests |-> {}, instance |-> FALSE,
     members |-> <<>>]

\* Arrays and records (plain or with a Prtcl.toClone handler) with n members.
IndexedConfigs(n) ==
    {[kind |-> "array", frozen |-> fz, custom |-> FALSE,
      toJSON |-> "none", toFlat |-> "none",
      tests |-> {}, instance |-> FALSE,
      members |-> [i \in 1..n |-> [k |-> Idx(i - 1), v |-> vs[i]]]] :
        fz \in BOOLEAN, vs \in [1..n -> Val]}
    \cup
    {[kind |-> "record", frozen |-> fz, custom |-> FALSE,
      toJSON |-> "none", toFlat |-> "none",
      tests |-> {}, instance |-> FALSE,
      members |-> [i \in 1..n |-> [k |-> Key(i), v |-> vs[i]]]] :
        fz \in BOOLEAN, vs \in [1..n -> RecVal]}
    \cup
    {[kind |-> "record", frozen |-> FALSE, custom |-> TRUE,
      toJSON |-> "none", toFlat |-> "none",
      tests |-> {}, instance |-> FALSE,
      members |-> [i \in 1..n |-> [k |-> Key(i), v |-> vs[i]]]] :
        vs \in [1..n -> Val]}

\* Sets: the members are pairwise distinct values.
SetConfigs(n) ==
    {[kind |-> "set", frozen |-> fz, custom |-> FALSE,
      toJSON |-> "none", toFlat |-> "none",
      tests |-> {}, instance |-> FALSE,
      members |-> [i \in 1..n |-> [k |-> vs[i], v |-> vs[i]]]] :
        fz \in BOOLEAN,
        vs \in {s \in [1..n -> Val] : \A i, j \in 1..n : s[i] = s[j] => i = j}}

\* Maps: distinct keys; the first key may be a composite.
MapConfigs(n) ==
    IF n = 0
    THEN {[kind |-> "map", frozen |-> fz, custom |-> FALSE,
           toJSON |-> "none", toFlat |-> "none",
           tests |-> {}, instance |-> FALSE,
           members |-> <<>>] : fz \in BOOLEAN}
    ELSE {[kind |-> "map", frozen |-> fz, custom |-> FALSE,
           toJSON |-> "none", toFlat |-> "none",
           tests |-> {}, instance |-> FALSE,
           members |-> [i \in 1..n |->
                          [k |-> IF i = 1 THEN k1 ELSE MKey(i), v |-> vs[i]]]] :
            fz \in BOOLEAN, k1 \in {MKey(1)} \cup ObjVal, vs \in [1..n -> Val]}

\* Records that declare how they flatten: a toJSON method of their own, a
\* toJSON that is defaultFlat itself, or a Prtcl.toFlat method of their own.
FlatHandlers ==
    {[toJSON |-> "own", toFlat |-> "none"],
     [toJSON |-> "defaultFlat", toFlat |-> "none"],
     [toJSON |-> "none", toFlat |-> "own"]}

FlateableConfigs(n) ==
    {[kind |-> "record", frozen |-> FALSE, custom |-> FALSE,
      toJSON |-> h.toJSON, toFlat |-> h.toFlat,
      tests |-> {}, instance |-> FALSE,
      members |-> [i \in 1..n |-> [k |-> Key(i), v |-> vs[i]]]] :
        h \in FlatHandlers, vs \in [1..n -> Val]}

\* Instances of a class written by the user: records whose prototype is the
\* prototype of their class.
InstanceConfigs(n) ==
    {[kind |-> "record", frozen |-> FALSE, custom |-> FALSE,
      toJSON |-> "none", toFlat |-> "none",
      tests |-> {}, instance |-> TRUE,
      members |-> [i \in 1..n |-> [k |-> Key(i), v |-> vs[i]]]] :
        vs \in [1..n -> Val]}

\* An opaque built-in carries at most this many properties of its own.
MaxOwnProps == 1

\* The built-ins internalClone copies with a fixed rule.  tests holds the
\* checks of internalClone the value passes: isSuportedByStructuredClone
\* ("structuredClone"), isPrimitiveWrapper ("wrapper"), isNativeError
\* ("nativeError"), instanceof Error, Date and RegExp.  Where structuredClone
\* exists a Date, a RegExp, an Error and a String, Number or Boolean object
\* pass its check as well; a BigInt or Symbol object never does.  toJSON is
\* "own" for a Date (Date.prototype.toJSON) and for a wrapper given a toJSON
\* method.
Builtins ==
    {[tests |-> {"structuredClone"}, toJSON |-> "none"],
     [tests |-> {"structuredClone", "wrapper"}, toJSON |-> "none"],
     [tests |-> {"structuredClone", "wrapper"}, toJSON |-> "own"],
     [tests |-> {"wrapper"}, toJSON |-> "none"],
     [tests |-> {"structuredClone", "nativeError", "Error"}, toJSON |-> "none"],
     [tests |-> {"nativeError", "Error"}, toJSON |-> "none"],
     [tests |-> {"structuredClone", "Error"}, toJSON |-> "none"],
     [tests |-> {"Error"}, toJSON |-> "none"],
     [tests |-> {"structuredClone", "Date"}, toJSON |-> "own"],
     [tests |-> {"Date"}, toJSON |-> "own"],
     [tests |-> {"structuredClone", "RegExp"}, toJSON |-> "none"],
     [tests |-> {"RegExp"}, toJSON |-> "none"]}

\* The built-ins with the enumerable properties assigned to them, and a Date
\* of a class that declares Prtcl.toClone.
OpaqueConfigs(n) ==
    IF n <= MaxOwnProps
    THEN {[kind |-> "opaque", frozen |-> FALSE, custom |-> FALSE,
           toJSON |-> b.toJSON, toFlat |-> "none",
           tests |-> b.tests, instance |-> FALSE,
           members |-> [i \in 1..n |-> [k |-> Key(i), v |-> vs[i]]]] :
            b \in Builtins, vs \in [1..n -> Val]}
         \cup
         {[kind |-> "opaque", frozen |-> FALSE, custom |-> TRUE,
           toJSON |-> "own", toFlat |-> "none",
           tests |-> {"structuredClone", "Date"}, instance |-> TRUE,
           members |-> [i \in 1..n |-> [k |-> Key(i), v |-> vs[i]]]] :
            vs \in [1..n -> Val]}
    ELSE {}

Configs(n) ==
    IndexedConfigs(n) \cup FlateableConfigs(n) \cup InstanceConfigs(n)
    \cup SetConfigs(n) \cup MapConfigs(n) \cup OpaqueConfigs(n)

\* Composites referenced by the configuration c, as member value or member key.
Refs(c) ==
    {x \in Obj : \E i \in 1..Len(c.members) :
        c.members[i].v = In(x) \/ c.members[i].k = In(x)}

PrefixRefs(h) == UNION {Refs(h[o]) : o \in 1..Len(h)}

RECURSIVE EdgeCount(_)
EdgeCount(h) == IF h = <<>> THEN 0 ELSE Len(Head(h).members) + EdgeCount(Tail(h))

\* The ways of adding composite n to the graph h over 1..n-1: any
\* configuration within the budget when an earlier composite refers to n,
\* and a blank composite when n is out of reach of the root.
Extend(h, n) ==
    IF n \in PrefixRefs(h)
    THEN UNION {{Append(h, c) : c \in Configs(k)} :
                  k \in 0..(MaxEdges - EdgeCount(h))}
    ELSE IF PrefixRefs(h) \subseteq 1..(n - 1) THEN {Append(h, Blank)} ELSE {}

\* The graphs over composites 1..n with at most MaxEdges members, numbered so
\* that every composite other than the root 1 is referenced by an earlier
\* one.  Every other graph is a renaming of one of these.
RECURSIVE HeapsOf(_)
HeapsOf(n) ==
    IF n = 1
    THEN UNION {{<<c>> : c \in Configs(k)} : k \in 0..MaxEdges}
    ELSE UNION {Extend(h, n) : h \in HeapsOf(n - 1)}

\* One module evaluation decides whether structuredClone exists: when a
\* composite passes its check, every Date, RegExp and Error does.
SameRuntime(h) ==
    (\E o \in 1..Len(h) : "structuredClone" \in h[o].tests) =>
        \A o \in 1..Len(h) :
            h[o].tests \cap {"Date", "RegExp", "Error"} # {} =>
                "structuredClone" \in h[o].tests

Graphs == {h \in HeapsOf(NObj) : SameRuntime(h)}

\* The elements of the arrays of h that hold a primitive.
PrimitiveElements(h) ==
    {<<o, i>> \in (1..Len(h)) \X (1..MaxEdges) :
        /\ h[o].kind = "array"
        /\ i <= Len(h[o].members)
        /\ h[o].members[i].v = P}

\* The graph h with the array elements in S deleted: delete arr[i].
WithHoles(h, S) ==
    [o \in 1..Len(h) |->
       [h[o] EXCEPT !.members =
          [i \in 1..Len(h[o].members) |->
             IF <<o, i>> \in S
             THEN [k |-> h[o].members[i].k, v |-> Hole]
             ELSE h[o].members[i]]]]

\* The graphs whose arrays may have holes.
SparseGraphs ==
    UNION {{WithHoles(h, S) : S \in SUBSET PrimitiveElements(h)} : h \in Graphs}

-----------------------------------------------------------------------------
(* Values as Prtcl.impl sees them.                                         *)

\* The symbols of Prtcl, one for each protocol.
Symbols ==
    {"toClone", "compareTo", "equalsTo", "toMutableClone", "toReadonlyClone",
     "toUnwrap"}

\* What an object holds under a symbol: nothing, a function, or another value.
Slot == {"absent", "function", "other"}

NoSlots == [s \in Symbols |-> "absent"]

Defined(slots) == {s \in Symbols : slots[s] # "absent"}

\* At most this many symbols are defined on a value and along its prototype
\* chain together.
MaxSlots == 2

SlotsUpTo(n) == {f \in [Symbols -> Slot] : Cardinality(Defined(f)) <= n}

\* The values impl is asked about: null, undefined, a primitive (own
\* properties it has none, its wrapper's prototype may have been given some),
\* a function or an object, each with what it holds under the symbols itself
\* (own) and through its prototype chain (proto).
GuardValues ==
    {[type |-> t, own |-> NoSlots, proto |-> NoSlots] : t \in {"null", "undefined"}}
    \cup
    {[type |-> "primitive", own |-> NoSlots, proto |-> q] : q \in SlotsUpTo(1)}
    \cup
    UNION {{[type |-> t, own |-> w, proto |-> q] :
               t \in {"function", "object"},
               q \in SlotsUpTo(MaxSlots - Cardinality(Defined(w)))} :
             w \in SlotsUpTo(MaxSlots)}

\* A class: what its prototype holds under the symbols and the symbols its
\* initializers define on every instance.
GuardClasses == {[proto |-> q, init |-> {}] : q \in SlotsUpTo(1)}

NoClass == [proto |-> NoSlots, init |-> {}]
NoValue == [type |-> "undefined", own |-> NoSlots, proto |-> NoSlots]

\* No use of the guard function is under study.
NoGuard ==
    [phase |-> "none", class |-> NoClass, decorators |-> {}, value |-> NoValue,
     protocol |-> "none", outcome |-> "none"]

-----------------------------------------------------------------------------
(* State.                                                                  *)

VARIABLES
    heap,      \* the input graph: composite -> its kind, flags and members
    root,      \* the value the entry point is called on
    op,        \* the entry point called, "none" before the call
    callHint,  \* the hint the call runs with, "none" before the call
    pc,        \* "idle", "draining", "done" or "threw"
    stack,     \* the work stack of the running traversal
    visited,   \* the WeakMap: composite or pair -> its output, None when absent
    out,       \* the shells created so far, Shell(n) is out[n]
    output,    \* the root shell of the running traversal
    calls,     \* the handler invocations so far: <<composite, hint>>
    copies,    \* the finished copies made so far: the rule that made each
    result,    \* the value returned to the caller, None before the return
    error,     \* what was thrown, "none" when nothing was
    popped,    \* the items the running traversal popped, in order
    first,     \* <<>>, or the record of the call made before this one
    guard,     \* the use of Prtcl.impl under study, NoGuard when there is none
    frames     \* the locals of the calls suspended in a handler, outermost first

vars ==
    <<heap, root, op, callHint, pc, stack, visited, out, output, calls, copies,
      result, error, popped, first, guard, frames>>

Init ==
    /\ \/ root = In(1) /\ heap \in Graphs
       \/ root \in {P, F} /\ heap = [o \in Obj |-> Blank]
    /\ op = "none"
    /\ callHint = "none"
    /\ pc = "idle"
    /\ stack = <<>>
    /\ visited = [o \in Obj \cup PairIds |-> None]
    /\ out = <<>>
    /\ output = None
    /\ calls = <<>>
    /\ copies = <<>>
    /\ result = None
    /\ error = "none"
    /\ popped = <<>>
    /\ first = <<>>
    /\ guard = NoGuard
    /\ frames = <<>>

-----------------------------------------------------------------------------
(* @prtcl/copy: helpers.                                                   *)

\* Prtcl.impl('clone', value): the value declares a Prtcl.toClone function.
impl(o) == o \in Obj /\ heap[o].custom

\* A chain of checks that looks for a primitive wrapper first.
builtinCloneWrapperFirst(o) ==
    IF "wrapper" \in heap[o].tests THEN "wrapper"
    ELSE IF "structuredClone" \in heap[o].tests THEN "structuredClone"
    ELSE IF "nativeError" \in heap[o].tests THEN "nativeError"
    ELSE IF "Error" \in heap[o].tests THEN "Error"
    ELSE IF "Date" \in heap[o].tests THEN "Date"
    ELSE IF "RegExp" \in heap[o].tests THEN "RegExp"
    ELSE "none"

\* The checks of internalClone after the capability lookup, in their order:
\* the rule that copies the value, "none" when no check matches.
builtinClone(o) ==
    IF "structuredClone" \in heap[o].tests THEN "structuredClone"
    ELSE IF "wrapper" \in heap[o].tests THEN "wrapper"
    ELSE IF "nativeError" \in heap[o].tests THEN "nativeError"
    ELSE IF "Error" \in heap[o].tests THEN "Error"
    ELSE IF "Date" \in heap[o].tests THEN "Date"
    ELSE IF "RegExp" \in heap[o].tests THEN "RegExp"
    ELSE "none"

\* A classification that skips the capability lookup.
internalCloneNoImpl(o) == IF builtinClone(o) # "none" THEN "opaque" ELSE "none"

\* The strategy internalClone selects: the custom handler first, then the
\* finished copies of opaque built-ins, otherwise not cloned.
internalClone(o) ==
    IF impl(o) THEN "custom"
    ELSE IF builtinClone(o) # "none" THEN "opaque"
    ELSE "none"

createObjectClone(parent) ==
    [src |-> parent,
     kind |-> CASE heap[parent].kind = "array" -> "array"
                [] heap[parent].kind = "map" -> "map"
                [] heap[parent].kind = "set" -> "set"
                [] OTHER -> "record",
     proto |-> "own",
     frozen |-> FALSE,
     items |-> <<>>]

\* A tagging that marks the last enumerated member, the first one popped.
getItemTypeLast(index, length) ==
    IF index = length - 1 THEN "head"
    ELSE IF index = 0 THEN "tail"
    ELSE "body"

getItemType(index, length) ==
    IF index = 0 THEN "head"
    ELSE IF index = length - 1 THEN "tail"
    ELSE "body"

\* The stack item of the i-th enumerated member of parent (i counts from 1).
keysToStackItem(parent, i) ==
    LET m == heap[parent].members[i]
        length == Len(heap[parent].members)
    IN  CASE heap[parent].kind = "array" ->
               [value |-> m.v, parent |-> parent, key |-> Idx(i - 1),
                type |-> getItemType(i - 1, length)]
          [] heap[parent].kind = "map" ->
               [value |-> m.v, key |-> m.k, parent |-> parent,
                type |-> getItemType(i - 1, length)]
          [] heap[parent].kind = "set" ->
               [value |-> m.v, key |-> m.v, parent |-> parent,
                type |-> getItemType(i - 1, length)]
          [] OTHER ->
               [value |-> m.v, key |-> m.k, parent |-> parent,
                type |-> getItemType(i - 1, length)]

\* What stack.pop() yields for a place of the stack that holds nothing.
NoItem == [value |-> Undefined, parent |-> 0, key |-> Undefined, type |-> "none"]

\* parent.map(..) calls back for the elements that exist and leaves a hole
\* for each hole of an array; Array.from(..).map(..) and the key lists of
\* an object have no holes.
getItems(parent) ==
    [i \in 1..Len(heap[parent].members) |->
       IF heap[parent].members[i].v = Hole
       THEN NoItem
       ELSE keysToStackItem(parent, i)]

\* Position of key k among the items, 0 when absent.
IndexOfKey(items, k) ==
    IF \E i \in 1..Len(items) : items[i].k = k
    THEN CHOOSE i \in 1..Len(items) : items[i].k = k
    ELSE 0

\* obj[key] = value, map.set(key, value): the entry is replaced in place when
\* the key exists and appended otherwise.
PutItem(items, k, v) ==
    IF IndexOfKey(items, k) = 0
    THEN Append(items, [k |-> k, v |-> v])
    ELSE [items EXCEPT ![IndexOfKey(items, k)] = [k |-> k, v |-> v]]

\* A setItem that treats a Map like a Set.
setItemMapAsSet(sh, key, value) ==
    CASE sh.kind = "array" -> PutItem(sh.items, key, value)
      [] sh.kind \in {"map", "set"} -> PutItem(sh.items, value, value)
      [] OTHER -> PutItem(sh.items, key, value)

\* The items of the shell sh after setItem(sh, key, value).
setItem(sh, key, value) ==
    CASE sh.kind = "array" -> PutItem(sh.items, key, value)
      [] sh.kind = "map" -> PutItem(sh.items, key, value)
      [] sh.kind = "set" -> PutItem(sh.items, value, value)
      [] OTHER -> PutItem(sh.items, key, value)

\* An assignment to an element or property of a frozen array or object throws
\* a TypeError (module code is strict); Map.set and Set.add ignore freezing.
Rejects(sh) == sh.frozen /\ sh.kind \in {"array", "record"}

\* What an iteration or a property read yields for each member: undefined
\* for a hole of an array.
Spread(members) ==
    [i \in 1..Len(members) |->
       IF members[i].v = Hole
       THEN [k |-> members[i].k, v |-> Undefined]
       ELSE members[i]]

\* A one-level copy that leaves the new container empty.
ShallowCopyEmptied(o) ==
    [createObjectClone(o) EXCEPT
       !.frozen = heap[o].frozen /\ heap[o].kind \notin {"map", "set"}]

\* [...value], new Map(value), new Set(value), {...value}: a new container
\* holding the very members of the source.
ShallowCopy(o) ==
    [createObjectClone(o) EXCEPT
       !.items = Spread(heap[o].members),
       !.frozen = heap[o].frozen /\ heap[o].kind \notin {"map", "set"}]

Obj2Id(v) == v[2]

\* A lookup that never finds the value: every encounter is cloned again.
hasNever(vis, o) == FALSE

\* visited.has(value)
has(vis, o) == vis[o] # None

\* A registration that is lost.
setDropped(vis, key, value) == vis

\* visited.set(value, output)
set(vis, key, value) == [vis EXCEPT ![key] = value]

\* A revisit that hands out the source instead of its registered output.
revisitSource(vis, o) == In(o)

\* visited.get(value) for a value met again: the output registered for it.
revisit(vis, o) == vis[o]

\* An invocation that drops the caller's mode.
invokeDefault(o, hint) == <<o, "default">>

\* value[Prtcl.toClone](hint): the record of one handler invocation.
invoke(o, hint) == <<o, hint>>

\* A copy that hands the source back.
structuredCloneShared(value, n) == In(value)

\* structuredClone(value), clonePrimitivesWrappers(value),
\* cloneNativeError(value), new Error(..), new Date(value), new RegExp(value):
\* the n-th finished copy, an object made by the call.
structuredClone(value, n) == Copy(n)

\* A pass that boxes the value into a new object.
nonObjectBoxed(value) == Copy(0)

\* A value that is no object is taken over as it is.
nonObject(value) == value

\* A pop whose order changes from one call to the next.
popIndexUnstable(s) == IF first = <<>> THEN Len(s) ELSE 1

\* stack.pop() takes the item pushed last.
popIndex(s) == Len(s)

\* The stack s without its i-th item.
Without(s, i) == SubSeq(s, 1, i - 1) \o SubSeq(s, i + 1, Len(s))

\* A registry that outlives the call: the next call finds the outputs of
\* the earlier one in it.
newWeakMapKept(vis) ==
    [x \in DOMAIN vis |->
       IF vis[x][1] = "shell" THEN <<"earlier", vis[x][2]>> ELSE vis[x]]

\* new WeakMap(): every call makes its own registry.
newWeakMap(vis) == [x \in DOMAIN vis |-> None]

\* The entry point called now is the one of the earlier call, if there was
\* one: the same operation is run again on the same input.
Repeats(name, hint) ==
    IF first = <<>> THEN TRUE ELSE first[1].op = name /\ first[1].hint = hint

\* A throw that is swallowed: the error is noted and the loop goes on.
ThrowAndGoOn(e) ==
    /\ pc' = pc
    /\ error' = e

\* throw: the call ends at once with the error e.
Throw(e) ==
    /\ pc' = "threw"
    /\ error' = e

-----------------------------------------------------------------------------
(* @prtcl/copy: clone and clone.shallow.                                   *)

\* clone (hint 'default') and clone.shallow (hint 'shallow') share one body.
ShallowEntry(name, hint) ==
    /\ pc = "idle"
    /\ Repeats(name, hint)
    /\ op' = name
    /\ callHint' = hint
    /\ UNCHANGED <<frames, guard, heap, root, stack, visited, output, popped, first>>
    /\ IF ~isObject(root)
       THEN /\ result' = nonObject(root)
            /\ pc' = "done"
            /\ UNCHANGED <<out, calls, copies, error>>
       ELSE LET o == Obj2Id(root) IN
            CASE internalClone(o) = "custom" ->
                   /\ calls' = Append(calls, invoke(o, hint))
                   /\ UNCHANGED <<out, copies>>
                   /\ \/ /\ result' = HRes(Len(calls'))
                         /\ pc' = "done"
                         /\ UNCHANGED error
                      \/ /\ Throw("handler")
                         /\ UNCHANGED result
              [] internalClone(o) = "opaque" ->
                   /\ copies' = Append(copies, builtinClone(o))
                   /\ result' = structuredClone(o, Len(copies'))
                   /\ pc' = "done"
                   /\ UNCHANGED <<out, calls, error>>
              [] OTHER ->
                   /\ out' = Append(out, ShallowCopy(o))
                   /\ result' = Shell(Len(out'))
                   /\ pc' = "done"
                   /\ UNCHANGED <<calls, copies, error>>

Clone == ShallowEntry("clone", "default")

CloneShallow == ShallowEntry("clone.shallow", "shallow")

-----------------------------------------------------------------------------
(* @prtcl/copy: clone.deep.                                                *)

CloneDeepCall ==
    /\ pc = "idle"
    /\ Repeats("clone.deep", "deep")
    /\ op' = "clone.deep"
    /\ callHint' = "deep"
    /\ UNCHANGED <<frames, guard, heap, root, popped, first>>
    /\ IF ~isObject(root)
       THEN /\ result' = nonObject(root)
            /\ pc' = "done"
            /\ UNCHANGED <<stack, visited, out, output, calls, copies, error>>
       ELSE LET o == Obj2Id(root) IN
            CASE internalClone(o) = "custom" ->
                   /\ calls' = Append(calls, invoke(o, "deep"))
                   /\ UNCHANGED <<stack, visited, out, output, copies>>
                   /\ \/ /\ result' = HRes(Len(calls'))
                         /\ pc' = "done"
                         /\ UNCHANGED error
                      \/ /\ Throw("handler")
                         /\ UNCHANGED result
              [] internalClone(o) = "opaque" ->
                   /\ copies' = Append(copies, builtinClone(o))
                   /\ result' = structuredClone(o, Len(copies'))
                   /\ pc' = "done"
                   /\ UNCHANGED <<stack, visited, out, output, calls, error>>
              [] OTHER ->
                   /\ out' = Append(out, createObjectClone(o))
                   /\ output' = Shell(Len(out'))
                   /\ stack' = getItems(o)
                   /\ visited' = [visited EXCEPT ![o] = output']
                   /\ pc' = "draining"
                   /\ UNCHANGED <<calls, copies, result, error>>

\* A lookup that takes the owner of an item for its own output.
getParentOutputSelf(vis, parent) == In(parent)

\* visited.get(parent): the output registered for the owner of an item.
getParentOutput(vis, parent) == vis[parent]

\* The tail of one loop iteration: setItem(parentOutput, key, value) and the
\* freeze of the owner's output at its 'head' item.  The assignment and the
\* freeze act on the object parentOutput refers to: an output of the call,
\* or a composite of the input graph if that is what was looked up.
Assign(item, parentOutput, value, out1) ==
    IF parentOutput[1] = "in"
    THEN LET o == parentOutput[2]
             target == [kind |-> heap[o].kind, frozen |-> heap[o].frozen,
                        items |-> heap[o].members]
         IN  /\ out' = out1
             /\ IF Rejects(target)
                THEN /\ Throw("TypeError")
                     /\ UNCHANGED heap
                ELSE /\ heap' = [heap EXCEPT
                                   ![o].members = setItem(target, item.key, value),
                                   ![o].frozen = @ \/ (item.type = "head"
                                                       /\ heap[item.parent].frozen)]
                     /\ UNCHANGED <<pc, error>>
    ELSE LET pid == parentOutput[2]
             sh == out1[pid]
             filled == [sh EXCEPT !.items = setItem(sh, item.key, value)]
         IN  /\ UNCHANGED heap
             /\ IF Rejects(sh)
                THEN /\ Throw("TypeError")
                     /\ out' = out1
                ELSE /\ out' = [out1 EXCEPT ![pid] =
                                  IF item.type = "head" /\ heap[item.parent].frozen
                                  THEN [filled EXCEPT !.frozen = TRUE]
                                  ELSE filled]
                     /\ UNCHANGED <<pc, error>>

CloneDeepStep ==
    /\ pc = "draining"
    /\ op = "clone.deep"
    /\ stack # <<>>
    /\ UNCHANGED <<frames, guard, root, op, callHint, output, result, first>>
    /\ popped' = Append(popped, stack[popIndex(stack)])
    /\ LET item == stack[popIndex(stack)]
           rest == Without(stack, popIndex(stack))
           parentOutput == getParentOutput(visited, item.parent)
       IN  IF item = NoItem
           THEN \* const { value, key, type, parent } = undefined
                /\ Throw("TypeError (undefined item)")
                /\ stack' = rest
                /\ UNCHANGED <<heap, visited, out, calls, copies>>
           ELSE IF parentOutput = None
           THEN /\ Throw("ParentOut not defined")
                /\ stack' = rest
                /\ UNCHANGED <<heap, visited, out, calls, copies>>
           ELSE IF ~isObject(item.value)
           THEN /\ stack' = rest
                /\ Assign(item, parentOutput, nonObject(item.value), out)
                /\ UNCHANGED <<visited, calls, copies>>
           ELSE LET o == Obj2Id(item.value) IN
                IF has(visited, o)
                THEN /\ stack' = rest
                     /\ Assign(item, parentOutput, revisit(visited, o), out)
                     /\ UNCHANGED <<visited, calls, copies>>
                ELSE CASE internalClone(o) = "custom" ->
                            /\ calls' = Append(calls, invoke(o, "deep"))
                            /\ stack' = rest
                            /\ UNCHANGED copies
                            /\ \/ /\ visited' = set(visited, o, HRes(Len(calls')))
                                  /\ Assign(item, parentOutput, HRes(Len(calls')), out)
                               \/ /\ Throw("handler")
                                  /\ UNCHANGED <<heap, visited, out>>
                       [] internalClone(o) = "opaque" ->
                            /\ copies' = Append(copies, builtinClone(o))
                            /\ stack' = rest
                            /\ visited' = set(visited, o, structuredClone(o, Len(copies')))
                            /\ Assign(item, parentOutput, structuredClone(o, Len(copies')), out)
                            /\ UNCHANGED calls
                       [] OTHER ->
                            LET out1 == Append(out, createObjectClone(o)) IN
                            /\ Len(out) < MaxShells
                            /\ stack' = rest \o getItems(o)
                            /\ visited' = set(visited, o, Shell(Len(out1)))
                            /\ Assign(item, parentOutput, Shell(Len(out1)), out1)
                            /\ UNCHANGED <<calls, copies>>

CloneDeepReturn ==
    /\ pc = "draining"
    /\ op = "clone.deep"
    /\ stack = <<>>
    /\ frames = <<>>
    /\ result' = output
    /\ pc' = "done"
    /\ UNCHANGED <<popped, first>>
    /\ UNCHANGED <<frames, guard, heap, root, op, callHint, stack, visited, out, output, calls,
                   copies, error>>

NextCopy == Clone \/ CloneShallow \/ CloneDeepCall \/ CloneDeepStep \/ CloneDeepReturn

-----------------------------------------------------------------------------
(* @prtcl/prtcl: defaultClone, defaultMutableClone, defaultReadonlyClone.  *)

\* The default methods read public fields only: they are modelled on graphs
\* of arrays and records.
PublicFields == \A o \in Obj : heap[o].kind \in {"array", "record"}

createCopyOutPut(value) ==
    [src |-> value,
     kind |-> IF heap[value].kind = "array" THEN "array" ELSE "record",
     proto |-> "own",
     frozen |-> FALSE,
     items |-> <<>>]

\* Object.create(Object.getPrototypeOf(value)): an ordinary object that
\* inherits from the prototype of its source.
ObjectCreate(value) ==
    [src |-> value, kind |-> "record", proto |-> "source", frozen |-> FALSE,
     items |-> <<>>]

getItemState(length, index) ==
    IF index = 0 THEN "head"
    ELSE IF index = length - 1 THEN "tail"
    ELSE "body"

\* What stack.pop() yields for a place of the stack that holds nothing.
NoStackItem == [value |-> Undefined, parent |-> 0, key |-> Undefined, state |-> "none"]

\* parent.map(..) leaves a hole in the stack for each hole of an array.
getCopyItemsStack(parent) ==
    LET ms == heap[parent].members IN
    IF heap[parent].kind = "array"
    THEN [i \in 1..Len(ms) |->
            IF ms[i].v = Hole
            THEN NoStackItem
            ELSE [value |-> ms[i].v, parent |-> parent, key |-> Idx(i - 1),
                  state |-> getItemState(Len(ms), i - 1)]]
    ELSE [i \in 1..Len(ms) |->
            [value |-> ms[i].v, parent |-> parent, key |-> ms[i].k,
             state |-> getItemState(Len(ms), i - 1)]]

\* The shell each default method creates for a composite.
NewCopy(name, value) ==
    IF name = "defaultClone" THEN ObjectCreate(value) ELSE createCopyOutPut(value)

\* Whether the method freezes the owner's copy after the item was assigned.
FreezesAt(name, item) ==
    CASE name = "defaultClone" -> item.state = "head" /\ heap[item.parent].frozen
      [] name = "defaultReadonlyClone" -> item.state = "head"
      [] OTHER -> FALSE

\* A root freeze that follows the receiver's flag in every method.
FreezesResultAsSource(name, o) == heap[o].frozen

\* Whether the method freezes the root's copy before returning it.
FreezesResult(name, o) ==
    CASE name = "defaultClone" -> heap[o].frozen
      [] name = "defaultReadonlyClone" -> TRUE
      [] OTHER -> FALSE

\* The hints a default method can be called with; a call without a hint runs
\* with 'default'.
CloneHint == {"default", "shallow", "deep"}

\* A dispatch that treats only 'shallow' as shallow.
takesDeepBranchUnlessShallow(h) == h # "shallow"

\* hint !== 'deep' selects the one-level copy.
takesDeepBranch(h) == h = "deep"

\* The properties Object.assign copies: a hole of an array is none.
OwnProperties(members) ==
    LET Exists(m) == m.v # Hole IN SelectSeq(members, Exists)

\* A one-level copy that is never frozen.
ShallowCopyOfMutable(name, o) ==
    [NewCopy(name, o) EXCEPT !.items = heap[o].members]

\* The one-level copy of each default method: Object.assign(Object.create(
\* proto), this) frozen as its source, [...this] or {...this} left mutable,
\* Object.freeze([...this]) or Object.freeze({...this}).
ShallowCopyOf(name, o) ==
    [NewCopy(name, o) EXCEPT
       !.items = IF name = "defaultClone"
                 THEN OwnProperties(heap[o].members)
                 ELSE Spread(heap[o].members),
       !.frozen = FreezesResult(name, o)]

\* {...this} on a primitive receiver: a new record without members.
SpreadOfPrimitive(name) ==
    [src |-> 0, kind |-> "record", proto |-> "own",
     frozen |-> (name = "defaultReadonlyClone"), items |-> <<>>]

\* A guard that lets a primitive receiver through.
rejectsPrimitiveNever(name) == FALSE

\* this == null || typeof this !== 'object': the guard of defaultClone, which
\* defaultMutableClone and defaultReadonlyClone do not have.
rejectsPrimitive(name) == name = "defaultClone"

DefaultCall(name) ==
    /\ pc = "idle"
    /\ PublicFields
    /\ op' = name
    /\ UNCHANGED <<frames, guard, heap, root, calls, copies, popped, first>>
    /\ \E h \in CloneHint :
        /\ Repeats(name, h)
        /\ callHint' = h
        /\ IF root = F
           THEN /\ result' = root
                /\ pc' = "done"
                /\ UNCHANGED <<stack, visited, out, output, error>>
           ELSE IF ~isObject(root)
           THEN IF rejectsPrimitive(name)
                THEN /\ Throw("defaultClone can not be called in a primitive")
                     /\ UNCHANGED <<stack, visited, out, output, result>>
                ELSE IF ~takesDeepBranch(h)
                THEN /\ out' = Append(out, SpreadOfPrimitive(name))
                     /\ result' = Shell(Len(out'))
                     /\ pc' = "done"
                     /\ UNCHANGED <<stack, visited, output, error>>
                ELSE \* new WeakMap([[this, result]]) rejects a primitive key
                     /\ Throw("TypeError")
                     /\ UNCHANGED <<stack, visited, out, output, result>>
           ELSE LET o == Obj2Id(root) IN
                IF ~takesDeepBranch(h)
                THEN /\ out' = Append(out, ShallowCopyOf(name, o))
                     /\ result' = Shell(Len(out'))
                     /\ pc' = "done"
                     /\ UNCHANGED <<stack, visited, output, error>>
                ELSE /\ out' = Append(out, NewCopy(name, o))
                     /\ output' = Shell(Len(out'))
                     /\ visited' = [visited EXCEPT ![o] = output']
                     /\ stack' = getCopyItemsStack(o)
                     /\ pc' = "draining"
                     /\ UNCHANGED <<result, error>>

\* copyParent[key] = copyValue, then the freeze of the owner's copy.
AssignCopy(name, item, copyParent, copyValue, out1) ==
    LET pid == copyParent[2]
        sh == out1[pid]
        filled == [sh EXCEPT !.items = PutItem(sh.items, item.key, copyValue)]
    IN  IF sh.frozen
        THEN /\ Throw("TypeError")
             /\ out' = out1
        ELSE /\ out' = [out1 EXCEPT ![pid] =
                          IF FreezesAt(name, item)
                          THEN [filled EXCEPT !.frozen = TRUE]
                          ELSE filled]
             /\ UNCHANGED <<pc, error>>

DefaultStep(name) ==
    /\ pc = "draining"
    /\ op = name
    /\ stack # <<>>
    /\ UNCHANGED <<frames, guard, heap, root, op, callHint, output, result, calls, copies, first>>
    /\ popped' = Append(popped, stack[popIndex(stack)])
    /\ LET item == stack[popIndex(stack)]
           rest == Without(stack, popIndex(stack))
           copyParent == visited[item.parent]
       IN  IF item = NoStackItem
           THEN \* const { key, parent, value, state } = undefined
                /\ Throw("TypeError (undefined item)")
                /\ stack' = rest
                /\ UNCHANGED <<visited, out>>
           ELSE IF copyParent = None
           THEN /\ Throw("copyParent not defined")
                /\ stack' = rest
                /\ UNCHANGED <<visited, out>>
           ELSE IF ~isObject(item.value)
           THEN /\ stack' = rest
                /\ AssignCopy(name, item, copyParent, item.value, out)
                /\ UNCHANGED visited
           ELSE LET value == Obj2Id(item.value) IN
                IF ~has(visited, value)
                THEN LET out1 == Append(out, NewCopy(name, value)) IN
                     /\ Len(out) < MaxShells
                     /\ visited' = set(visited, value, Shell(Len(out1)))
                     /\ stack' = rest \o getCopyItemsStack(value)
                     /\ AssignCopy(name, item, copyParent, Shell(Len(out1)), out1)
                ELSE /\ stack' = rest
                     /\ AssignCopy(name, item, copyParent, visited[value], out)
                     /\ UNCHANGED visited

DefaultReturn(name) ==
    /\ pc = "draining"
    /\ op = name
    /\ stack = <<>>
    /\ out' = IF FreezesResult(name, Obj2Id(root))
              THEN [out EXCEPT ![output[2]].frozen = TRUE]
              ELSE out
    /\ result' = output
    /\ pc' = "done"
    /\ UNCHANGED <<popped, first>>
    /\ UNCHANGED <<frames, guard, heap, root, op, callHint, stack, visited, output, calls, copies,
                   error>>

DefaultCloneCall == DefaultCall("defaultClone")
DefaultCloneStep == DefaultStep("defaultClone")
DefaultCloneReturn == DefaultReturn("defaultClone")

DefaultMutableCloneCall == DefaultCall("defaultMutableClone")
DefaultMutableCloneStep == DefaultStep("defaultMutableClone")
DefaultMutableCloneReturn == DefaultReturn("defaultMutableClone")

DefaultReadonlyCloneCall == DefaultCall("defaultReadonlyClone")
DefaultReadonlyCloneStep == DefaultStep("defaultReadonlyClone")
DefaultReadonlyCloneReturn == DefaultReturn("defaultReadonlyClone")

NextPrtcl ==
    \/ DefaultCloneCall \/ DefaultCloneStep \/ DefaultCloneReturn
    \/ DefaultMutableCloneCall \/ DefaultMutableCloneStep \/ DefaultMutableCloneReturn
    \/ DefaultReadonlyCloneCall \/ DefaultReadonlyCloneStep \/ DefaultReadonlyCloneReturn

-----------------------------------------------------------------------------
(* @prtcl/prtcl: defaultFlat.                                              *)

\* Symbol.iterator in value: arrays, Maps, Sets, the pairs of a Map, and the
\* String objects among the primitive wrappers.
isIterable(value) ==
    \/ value \in PairIds
    \/ heap[value].kind \in {"array", "map", "set"}
    \/ "wrapper" \in heap[value].tests

\* A test that takes no object for a primitive wrapper.
isPrimitiveWraperNever(value) == FALSE

\* value instanceof Boolean, BigInt, Number, String or Symbol; the pairs of a
\* Map are arrays.
isPrimitiveWraper(value) == value \in Obj /\ "wrapper" \in heap[value].tests

\* A test that also takes a toJSON that is defaultFlat itself.
hasToJSONOrSelf(value) == value \in Obj /\ heap[value].toJSON # "none"

\* 'toJSON' in value, value.toJSON is a function, and it is not defaultFlat.
hasToJSON(value) == value \in Obj /\ heap[value].toJSON = "own"

\* value.toJSON(): the call is recorded and its result is a value of the
\* handler's own making; a toJSON method written for a record may throw.
CallToJSON(value) == calls' = Append(calls, invoke(value, "none"))
ToJSONMayThrow(value) == heap[value].kind = "record"

\* A flat output that is a record whatever the source.
createFlatOutPutAsRecord(value) ==
    [src |-> value, kind |-> "record", proto |-> "own", frozen |-> FALSE,
     items |-> <<>>]

createFlatOutPut(value) ==
    [src |-> value,
     kind |-> IF isIterable(value) THEN "array" ELSE "record",
     proto |-> "own",
     frozen |-> FALSE,
     items |-> <<>>]

\* The stack items of parent: the elements Array.from(parent) yields, keyed
\* by index, for an iterable, and the value Reflect.get reads for every
\* property name otherwise.
getFlatItemsStack(parent) ==
    IF parent \in PairIds
    THEN LET m == heap[PairMap(parent)].members[PairIndex(parent)] IN
         <<[value |-> m.k, parent |-> parent, key |-> Idx(0),
            state |-> getItemState(2, 0)],
           [value |-> m.v, parent |-> parent, key |-> Idx(1),
            state |-> getItemState(2, 1)]>>
    ELSE LET ms == heap[parent].members IN
         CASE heap[parent].kind = "map" ->
                [i \in 1..Len(ms) |->
                   [value |-> Pair(parent, i), parent |-> parent, key |-> Idx(i - 1),
                    state |-> getItemState(Len(ms), i - 1)]]
           [] heap[parent].kind \in {"array", "set"} ->
                [i \in 1..Len(ms) |->
                   [value |-> Spread(ms)[i].v, parent |-> parent, key |-> Idx(i - 1),
                    state |-> getItemState(Len(ms), i - 1)]]
           [] OTHER ->
                [i \in 1..Len(ms) |->
                   [value |-> ms[i].v, parent |-> parent, key |-> ms[i].k,
                    state |-> getItemState(Len(ms), i - 1)]]

\* A test that takes no value for a function.
isFunctionNever(value) == FALSE

\* typeof value === 'function'
isFunction(value) == value = F

\* typeof value === 'object' && value != null
isFlatObject(value) == value[1] \in {"in", "pair"}

DefaultFlatCall ==
    /\ pc = "idle"
    /\ Repeats("defaultFlat", "none")
    /\ op' = "defaultFlat"
    /\ UNCHANGED <<frames, guard, heap, root, callHint, copies, popped, first>>
    /\ IF isFunction(root)
       THEN /\ result' = Undefined
            /\ pc' = "done"
            /\ UNCHANGED <<stack, visited, out, output, calls, error>>
       ELSE IF ~isFlatObject(root)
       THEN \* 'toJSON' in this rejects a primitive
            /\ Throw("TypeError")
            /\ UNCHANGED <<stack, visited, out, output, calls, result>>
       ELSE LET o == Obj2Id(root) IN
            IF isPrimitiveWraper(o)
            THEN /\ result' = P
                 /\ pc' = "done"
                 /\ UNCHANGED <<stack, visited, out, output, calls, error>>
            ELSE IF hasToJSON(o)
            THEN /\ CallToJSON(o)
                 /\ UNCHANGED <<stack, visited, out, output>>
                 /\ \/ /\ result' = HRes(Len(calls'))
                       /\ pc' = "done"
                       /\ UNCHANGED error
                    \/ /\ ToJSONMayThrow(o)
                       /\ Throw("handler")
                       /\ UNCHANGED result
            ELSE /\ out' = Append(out, createFlatOutPut(o))
                 /\ output' = Shell(Len(out'))
                 /\ visited' = [visited EXCEPT ![o] = output']
                 /\ stack' = getFlatItemsStack(o)
                 /\ pc' = "draining"
                 /\ UNCHANGED <<calls, result, error>>

\* The own members of the object flatParent refers to: an output of the
\* call, or a composite of the input graph if that is what was looked up.
FlatItems(flatParent, out1) ==
    IF flatParent[1] = "in" THEN heap[flatParent[2]].members
    ELSE out1[flatParent[2]].items

\* flatParent[key] = flatValue: a plain assignment, which a frozen object
\* rejects with a TypeError (module code is strict).
FlatAssign(item, flatParent, flatValue, out1) ==
    IF flatParent[1] = "in"
    THEN /\ out' = out1
         /\ IF heap[flatParent[2]].frozen
            THEN /\ Throw("TypeError")
                 /\ UNCHANGED heap
            ELSE /\ heap' = [heap EXCEPT ![flatParent[2]].members =
                                PutItem(@, item.key, flatValue)]
                 /\ UNCHANGED <<pc, error>>
    ELSE /\ out' = [out1 EXCEPT ![flatParent[2]].items =
                       PutItem(@, item.key, flatValue)]
         /\ UNCHANGED <<heap, pc, error>>

DefaultFlatStep ==
    /\ pc = "draining"
    /\ op = "defaultFlat"
    /\ stack # <<>>
    /\ UNCHANGED <<frames, guard, root, op, callHint, output, result, copies, first>>
    /\ popped' = Append(popped, stack[popIndex(stack)])
    /\ LET item == stack[popIndex(stack)]
           rest == Without(stack, popIndex(stack))
           flatParent == visited[item.parent]
       IN  IF isFunction(item.value)
           THEN /\ stack' = rest
                /\ UNCHANGED <<heap, visited, out, calls, pc, error>>
           ELSE IF flatParent = None
           THEN /\ Throw("FlatParent not defined")
                /\ stack' = rest
                /\ UNCHANGED <<heap, visited, out, calls>>
           ELSE IF IndexOfKey(FlatItems(flatParent, out), item.key) # 0
           THEN /\ stack' = rest
                /\ UNCHANGED <<heap, visited, out, calls, pc, error>>
           ELSE IF ~isFlatObject(item.value)
           THEN /\ stack' = rest
                /\ FlatAssign(item, flatParent, item.value, out)
                /\ UNCHANGED <<visited, calls>>
           ELSE LET value == Obj2Id(item.value) IN
                IF isPrimitiveWraper(value)
                THEN /\ stack' = rest
                     /\ FlatAssign(item, flatParent, P, out)
                     /\ UNCHANGED <<visited, calls>>
                ELSE IF hasToJSON(value)
                THEN /\ CallToJSON(value)
                     /\ stack' = rest
                     /\ UNCHANGED visited
                     /\ \/ FlatAssign(item, flatParent, HRes(Len(calls')), out)
                        \/ /\ ToJSONMayThrow(value)
                           /\ Throw("handler")
                           /\ UNCHANGED <<heap, out>>
                ELSE IF ~has(visited, value)
                THEN LET out1 == Append(out, createFlatOutPut(value)) IN
                     /\ Len(out) < MaxShells
                     /\ visited' = set(visited, value, Shell(Len(out1)))
                     /\ stack' = rest \o getFlatItemsStack(value)
                     /\ FlatAssign(item, flatParent, Shell(Len(out1)), out1)
                     /\ UNCHANGED calls
                ELSE /\ stack' = rest
                     /\ FlatAssign(item, flatParent, revisit(visited, value), out)
                     /\ UNCHANGED <<visited, calls>>

DefaultFlatReturn ==
    /\ pc = "draining"
    /\ op = "defaultFlat"
    /\ stack = <<>>
    /\ result' = output
    /\ pc' = "done"
    /\ UNCHANGED <<popped, first>>
    /\ UNCHANGED <<frames, guard, heap, root, op, callHint, stack, visited, out, output, calls,
                   copies, error>>

NextFlat == DefaultFlatCall \/ DefaultFlatStep \/ DefaultFlatReturn

-----------------------------------------------------------------------------
(* A second call on the same input.                                        *)

\* The caller holds the container a call returned and calls the same entry
\* point again: the stack, the registry and the output of the call that
\* returned were its locals, and the new call starts with its own.
CallAgain ==
    /\ pc = "done"
    /\ first = <<>>
    /\ result[1] = "shell"
    /\ first' = <<[op |-> op, hint |-> callHint, result |-> result, out |-> out,
                   calls |-> calls, copies |-> copies, popped |-> popped]>>
    /\ op' = "none"
    /\ callHint' = "none"
    /\ pc' = "idle"
    /\ stack' = <<>>
    /\ visited' = newWeakMap(visited)
    /\ out' = <<>>
    /\ output' = None
    /\ calls' = <<>>
    /\ copies' = <<>>
    /\ result' = None
    /\ error' = "none"
    /\ popped' = <<>>
    /\ UNCHANGED <<frames, guard, heap, root>>

\* The steps of the calls themselves.
Steps == NextCopy \/ NextPrtcl \/ NextFlat

Next == Steps \/ CallAgain

Spec == Init /\ [][Next]_vars

\* Every step of a call is taken: the code runs to its return or its throw.
\* Whether the caller calls again is up to the caller.
FairSpec == Spec /\ WF_vars(Steps)

-----------------------------------------------------------------------------
(* Vocabulary of the properties.                                           *)

CopyOps == {"clone", "clone.shallow", "clone.deep"}
DefaultOps == {"defaultClone", "defaultMutableClone", "defaultReadonlyClone"}
DeepOps == {"clone.deep"} \cup DefaultOps

IsShell(v) == v[1] = "shell"

\* The members of the shell n, as a set of [k, v] entries.
Items(n) == {out[n].items[i] : i \in 1..Len(out[n].items)}

\* The composites the running traversal built a default shell for.
Built == {o \in Obj : IsShell(visited[o])}

\* The shells created for the input composite o.
ShellsOf(o) == {n \in 1..Len(out) : out[n].src = o}

\* The composites that are member values of o.
Succ(o) == {x \in Obj : \E i \in 1..Len(heap[o].members) : heap[o].members[i].v = In(x)}

RECURSIVE Closure(_, _)
Closure(S, n) ==
    IF n = 0 THEN S ELSE Closure(S \cup UNION {Succ(o) : o \in S}, n - 1)

\* v itself and the composites that reach v along member edges.
AncestorsOrSelf(v) == {a \in Obj : v \in Closure({a}, NObj)}

\* What the traversal assigns for the source value x: x itself when it is a
\* primitive or a function, the output registered for it otherwise.
OutOf(x) == IF isObject(x) THEN visited[Obj2Id(x)] ELSE x

\* The entry of v's output that corresponds to the i-th member of v.
MemberOut(v, i) ==
    LET m == heap[v].members[i] IN
    IF heap[v].kind = "set" /\ op = "clone.deep"
    THEN [k |-> OutOf(m.v), v |-> OutOf(m.v)]
    ELSE [k |-> m.k, v |-> OutOf(m.v)]

DeepDone == pc = "done" /\ op = "clone.deep" /\ isObject(root)

\* The call is not a deep clone of a composite.
NotDeepCall == ~isObject(root) \/ op \in {"clone", "clone.shallow", "defaultFlat"}

-----------------------------------------------------------------------------
-----------------------------------------------------------------------------
(* C2: cycle preservation in clone.deep.  When clone.deep is done, every   *)
(* member of a built composite v that refers to v or to an ancestor a of v *)
(* holds, in v's output, the one output registered for a, and a was given  *)
(* a single output: no second copy of it exists.                           *)
C2_CyclePreserved ==
    DeepDone =>
        \A v \in Built : \A i \in 1..Len(heap[v].members) :
            LET x == heap[v].members[i].v IN
            (isObject(x) /\ Obj2Id(x) \in AncestorsOrSelf(v)) =>
                /\ MemberOut(v, i) \in Items(visited[v][2])
                /\ visited[Obj2Id(x)] # None
                /\ Cardinality(ShellsOf(Obj2Id(x))) <= 1

\* a = {}; a.self = a: the clone refers to itself.
C2_Witness ==
    /\ DeepDone
    /\ IsShell(result)
    /\ 1 \in Succ(1)
    /\ \E e \in Items(result[2]) : e.v = result

-----------------------------------------------------------------------------
(* C3: shared references in clone.deep.  When clone.deep is done, two      *)
(* member edges that point to the same input composite s hold the same     *)
(* output in the outputs of their owners, and s has at most one shell.     *)
C3_SharedPreserved ==
    DeepDone =>
        \A v1, v2 \in Built :
          \A i1 \in 1..Len(heap[v1].members) : \A i2 \in 1..Len(heap[v2].members) :
            LET x1 == heap[v1].members[i1].v
                x2 == heap[v2].members[i2].v
            IN  (isObject(x1) /\ x1 = x2) =>
                  /\ \E e1 \in Items(visited[v1][2]) : \E e2 \in Items(visited[v2][2]) :
                        /\ e1.k = MemberOut(v1, i1).k
                        /\ e2.k = MemberOut(v2, i2).k
                        /\ e1.v = e2.v
                        /\ e1.v[1] # "in"
                  /\ Cardinality(ShellsOf(Obj2Id(x1))) <= 1

\* obj = {a: shared, b: shared}: both members of the clone are one composite.
C3_Witness ==
    /\ DeepDone
    /\ IsShell(result)
    /\ heap[1].kind = "record"
    /\ Len(heap[1].members) = 2
    /\ heap[1].members[1].v = In(2)
    /\ heap[1].members[2].v = In(2)
    /\ \E e1, e2 \in Items(result[2]) : e1.k # e2.k /\ e1.v = e2.v /\ IsShell(e1.v)

-----------------------------------------------------------------------------
\* The shells reachable from the shells in S, through member values and keys.
RECURSIVE ShellClosure(_, _)
ShellClosure(S, n) ==
    IF n = 0 THEN S
    ELSE ShellClosure(
           S \cup {e.v[2] : e \in {e \in UNION {Items(m) : m \in S} : IsShell(e.v)}}
             \cup {e.k[2] : e \in {e \in UNION {Items(m) : m \in S} : IsShell(e.k)}},
           n - 1)

ReachableShells(v) == IF IsShell(v) THEN ShellClosure({v[2]}, Len(out)) ELSE {}

(* C4: referential inequality of clone.deep.  When clone.deep is done, the *)
(* result is not the input, and no member value and no Map key of any      *)
(* composite reachable from the result is a composite of the input graph.  *)
C4_NoInputIdentity ==
    DeepDone =>
        /\ result[1] # "in"
        /\ \A n \in ReachableShells(result) : \A e \in Items(n) :
              e.v[1] # "in" /\ e.k[1] # "in"

-----------------------------------------------------------------------------
(* C5: structural equality of clone.deep.  When clone.deep is done, the    *)
(* output of every built composite v has exactly one member for each       *)
(* enumerated member (k, x) of v, holding x itself when x is a primitive   *)
(* or a function and the output registered for x when x is a composite.    *)
C5_SameMembers ==
    DeepDone =>
        \A v \in Built :
            /\ Items(visited[v][2]) = {MemberOut(v, i) : i \in 1..Len(heap[v].members)}
            /\ Len(out[visited[v][2]].items) = Len(heap[v].members)
            /\ \A i \in 1..Len(heap[v].members) : MemberOut(v, i).v # None

\* A deep clone of a composite holding a primitive and a nested composite.
C5_Witness ==
    /\ DeepDone
    /\ IsShell(result)
    /\ \E e \in Items(result[2]) : e.v = P
    /\ \E e \in Items(result[2]) : isObject(e.v) /\ e.v # result

-----------------------------------------------------------------------------
(* C6: freeze propagation.  When clone.deep or the deep defaultClone is    *)
(* done, the output of every built composite is frozen exactly when its    *)
(* source is frozen.                                                       *)
C6_FrozenIffSourceFrozen ==
    (pc = "done" /\ op \in {"clone.deep", "defaultClone"} /\ isObject(root)) =>
        \A v \in Built : out[visited[v][2]].frozen <=> heap[v].frozen

-----------------------------------------------------------------------------
(* C7: freezing is never early.  In every state of a deep traversal, an    *)
(* output that is frozen has no item left on the stack whose owner is its  *)
(* source, and no assignment was rejected by a frozen output.              *)
C7_FrozenHasNoPendingItem ==
    /\ \A n \in 1..Len(out) :
          out[n].frozen =>
              \A i \in 1..Len(stack) : visited[stack[i].parent] # Shell(n)
    /\ error # "TypeError" \/ ~isObject(root)

\* The last item of a frozen owner with two members was just assigned: the
\* output is frozen, complete, and the traversal has not returned yet.
C7_Witness ==
    /\ pc = "draining"
    /\ op \in DeepOps
    /\ \E n \in 1..Len(out) :
          /\ out[n].frozen
          /\ Len(out[n].items) = 2
          /\ heap[out[n].src].frozen

-----------------------------------------------------------------------------
\* Number of times the handler of o was invoked.
CallsOf(o) == Cardinality({i \in 1..Len(calls) : calls[i][1] = o})

-----------------------------------------------------------------------------
HintOf(name) ==
    CASE name = "clone" -> "default"
      [] name = "clone.shallow" -> "shallow"
      [] name = "clone.deep" -> "deep"
      [] OTHER -> "none"

(* C9: hint and verbatim result.  Every handler invocation receives the    *)
(* mode of the entry point ('default' from clone, 'shallow' from           *)
(* clone.shallow, 'deep' from clone.deep, nested handlers included); when  *)
(* the root has a handler the call returns the value of that one           *)
(* invocation and builds nothing.                                          *)
C9_HintAndVerbatim ==
    /\ \A i \in 1..Len(calls) : calls[i][2] = HintOf(op)
    /\ (pc = "done" /\ op \in CopyOps /\ isObject(root) /\ impl(Obj2Id(root))) =>
          /\ calls = <<invoke(Obj2Id(root), HintOf(op))>>
          /\ result = HRes(1)
          /\ out = <<>>
          /\ stack = <<>>
          /\ copies = <<>>

\* clone.shallow on a composite with a handler returned the handler's value.
C9_Witness ==
    /\ pc = "done"
    /\ op = "clone.shallow"
    /\ calls = <<<<1, "shallow">>>>
    /\ result = HRes(1)

-----------------------------------------------------------------------------
(* C10: the capability lookup precedes every default strategy.  No         *)
(* composite that declares a Prtcl.toClone handler is given a default      *)
(* shell or has its members pushed, at the root or nested; the receiver of *)
(* a default method, whose handler is that very method, is the only        *)
(* composite left out.                                                     *)
C10_LookupBeforeDefault ==
    LET Receiver(o) == op \in DefaultOps /\ In(o) = root IN
    op \in CopyOps \cup DefaultOps =>
        /\ \A n \in 1..Len(out) : impl(out[n].src) => Receiver(out[n].src)
        /\ \A i \in 1..Len(stack) : impl(stack[i].parent) => Receiver(stack[i].parent)

-----------------------------------------------------------------------------
\* clone or clone.shallow returned the one-level copy of a container.
ShallowDone ==
    /\ pc = "done"
    /\ op \in {"clone", "clone.shallow"}
    /\ isObject(root)
    /\ internalClone(Obj2Id(root)) = "none"

(* C11: shallow versus deep.  For an array, record, Map or Set x without a *)
(* handler, clone and clone.shallow return a new container of x's kind     *)
(* whose members are, key by key and in order, the very values of x's      *)
(* members; clone.deep returns a new container of x's kind that has, for   *)
(* each member of x, a member under the same key, and where x's member is  *)
(* a composite the member of the result is another identity.               *)
C11_ShallowSharesDeepCopies ==
    /\ ShallowDone =>
          /\ IsShell(result)
          /\ out[result[2]].kind = heap[Obj2Id(root)].kind
          /\ out[result[2]].items = heap[Obj2Id(root)].members
    /\ (DeepDone /\ internalClone(Obj2Id(root)) = "none") =>
          /\ IsShell(result)
          /\ out[result[2]].kind = heap[Obj2Id(root)].kind
          /\ \A i \in 1..Len(heap[Obj2Id(root)].members) :
                LET m == heap[Obj2Id(root)].members[i] IN
                /\ MemberOut(Obj2Id(root), i) \in Items(result[2])
                /\ isObject(m.v) =>
                      /\ MemberOut(Obj2Id(root), i).v # m.v
                      /\ MemberOut(Obj2Id(root), i).v[1] # "in"

\* x = {a: y}: the shallow copy of x holds y itself.
C11_Witness ==
    /\ ShallowDone
    /\ op = "clone.shallow"
    /\ IsShell(result)
    /\ heap[1].kind = "record"
    /\ \E e \in Items(result[2]) : e.v = In(2)

-----------------------------------------------------------------------------
\* A default method returned from the branch taken for 'default' or 'shallow'.
OneLevelDone ==
    /\ pc = "done"
    /\ op \in DefaultOps
    /\ callHint \in {"default", "shallow"}
    /\ isObject(root)

(* C12: 'default' behaves as 'shallow'.  clone and clone.shallow return,   *)
(* for the same input, a result fixed by the input alone: a new container  *)
(* of the source's kind holding the source's member references and frozen  *)
(* as the source is (Map and Set never), a finished copy of an opaque      *)
(* built-in, or the value of the single handler invocation, which differs  *)
(* only by the hint passed ('default' or 'shallow').  defaultClone,        *)
(* defaultMutableClone and defaultReadonlyClone called with 'default',     *)
(* 'shallow' or no hint return a one-level copy fixed by the receiver      *)
(* alone: the receiver's member references, one new container, and no      *)
(* traversal.                                                              *)
C12_DefaultIsShallow ==
    /\ ShallowDone =>
          LET o == Obj2Id(root) IN
          /\ out = <<[src |-> o, kind |-> heap[o].kind, proto |-> "own",
                      frozen |-> heap[o].frozen /\ heap[o].kind \notin {"map", "set"},
                      items |-> heap[o].members]>>
          /\ result = Shell(1)
          /\ calls = <<>>
    /\ (pc = "done" /\ op \in {"clone", "clone.shallow"} /\ isObject(root)
          /\ internalClone(Obj2Id(root)) = "opaque") =>
          result = Copy(1) /\ out = <<>> /\ calls = <<>>
    /\ (pc = "done" /\ op \in {"clone", "clone.shallow"} /\ isObject(root)
          /\ internalClone(Obj2Id(root)) = "custom") =>
          /\ result = HRes(1) /\ out = <<>>
          /\ calls = <<<<Obj2Id(root), IF op = "clone" THEN "default" ELSE "shallow">>>>
    /\ OneLevelDone =>
          LET o == Obj2Id(root) IN
          /\ result = Shell(1)
          /\ Len(out) = 1
          /\ out[1].src = o
          /\ out[1].items = heap[o].members
          /\ out[1].kind = (IF op # "defaultClone" /\ heap[o].kind = "array"
                            THEN "array" ELSE "record")
          /\ out[1].frozen = (CASE op = "defaultClone" -> heap[o].frozen
                                [] op = "defaultMutableClone" -> FALSE
                                [] OTHER -> TRUE)
          /\ stack = <<>>
          /\ \A x \in Obj : visited[x] = None

\* defaultClone called without a hint on {a: y} returned a copy holding y.
C12_Witness ==
    /\ OneLevelDone
    /\ op = "defaultClone"
    /\ callHint = "default"
    /\ heap[1].members # <<>>
    /\ heap[1].members[1].v = In(2)
    /\ out[1].items[1].v = In(2)

-----------------------------------------------------------------------------
(* C13: primitives and functions are returned verbatim.  Called on a       *)
(* primitive or a function, clone, clone.shallow and clone.deep return     *)
(* that very value in one step: no work stack, no visited entry, no shell, *)
(* no copy and no handler invocation is made.  When clone.deep is done,    *)
(* every member of a built composite whose value is a function or a        *)
(* primitive is held by the output under its key as that very value.       *)
C13_NonObjectsVerbatim ==
    /\ (op \in CopyOps /\ ~isObject(root)) =>
          /\ pc = "done"
          /\ result = root
          /\ stack = <<>> /\ out = <<>> /\ output = None
          /\ calls = <<>> /\ copies = <<>>
          /\ \A x \in DOMAIN visited : visited[x] = None
    /\ DeepDone =>
          \A v \in Built : \A i \in 1..Len(heap[v].members) :
              ~isObject(heap[v].members[i].v) =>
                  /\ MemberOut(v, i).v = heap[v].members[i].v
                  /\ MemberOut(v, i) \in Items(visited[v][2])

\* clone.deep of {m: function} is done and the copy holds the function.
C13_Witness ==
    /\ DeepDone
    /\ IsShell(result)
    /\ \E i \in 1..Len(heap[1].members) : heap[1].members[i].v = F
    /\ \E e \in Items(result[2]) : e.v = F

-----------------------------------------------------------------------------
-----------------------------------------------------------------------------
\* The deep traversal of defaultMutableClone or defaultReadonlyClone returned.
VariantDeepDone ==
    /\ pc = "done"
    /\ op \in {"defaultMutableClone", "defaultReadonlyClone"}
    /\ callHint = "deep"
    /\ isObject(root)

(* C15: nested freeze propagation in the mutable and readonly variants.    *)
(* When the deep defaultMutableClone or defaultReadonlyClone is done, the  *)
(* output of every built composite other than the root is frozen exactly   *)
(* when its source is frozen.                                              *)
C15_NestedFrozenIffSource ==
    VariantDeepDone =>
        \A v \in Built \ {Obj2Id(root)} :
            out[visited[v][2]].frozen <=> heap[v].frozen

-----------------------------------------------------------------------------
(* C16: deeply read-only copy.  When defaultReadonlyClone with hint 'deep' *)
(* is done, the root and every composite reachable from the result are     *)
(* frozen.                                                                 *)
C16_DeeplyReadonly ==
    (pc = "done" /\ op = "defaultReadonlyClone" /\ callHint = "deep"
       /\ isObject(root)) =>
        \A n \in ReachableShells(result) : out[n].frozen

-----------------------------------------------------------------------------
\* defaultFlat returned the flattened node of a composite.
FlatDone == pc = "done" /\ op = "defaultFlat" /\ IsShell(result)

\* The composite o is flattened member by member: it is no primitive
\* wrapper and has no toJSON method of its own.
FlatTraversed(o) == ~isPrimitiveWraper(o) /\ ~hasToJSON(o)

\* y is what defaultFlat assigns for the source value x: the primitive a
\* primitive wrapper unwraps to, the result of a toJSON call on x, the node
\* registered for a traversed composite or a pair, x itself when it is a
\* primitive.
FlatOf(x, y) ==
    CASE x[1] = "in" ->
           IF isPrimitiveWraper(x[2]) THEN y = P
           ELSE IF hasToJSON(x[2])
           THEN /\ y[1] = "hres"
                /\ y[2] \in 1..Len(calls)
                /\ calls[y[2]][1] = x[2]
           ELSE y = visited[x[2]]
      [] x[1] = "pair" -> y = visited[x[2]]
      [] OTHER -> y = x

\* The members the flattened node of the composite o has to hold: the name
\* and the source value of each.
FlatMembers(o) ==
    LET ms == heap[o].members IN
    CASE heap[o].kind = "map" ->
           {[k |-> Idx(i - 1), v |-> Pair(o, i)] : i \in 1..Len(ms)}
      [] heap[o].kind \in {"array", "set"} ->
           {[k |-> Idx(i - 1), v |-> ms[i].v] :
              i \in {j \in 1..Len(ms) : ms[j].v # F}}
      [] OTHER ->
           {[k |-> ms[i].k, v |-> ms[i].v] :
              i \in {j \in 1..Len(ms) : ms[j].v # F}}

-----------------------------------------------------------------------------
-----------------------------------------------------------------------------
(* C19: flatten on cyclic or shared input.  Every defaultFlat call on a    *)
(* composite comes to its return, on graphs with cycles too, unless a      *)
(* toJSON method it calls throws and ends it; when it is                   *)
(* done the stack is empty, no composite and no pair was given more than   *)
(* one flattened node, every node held as a member is the node registered  *)
(* for its source, and every member of a traversed array, Set or record    *)
(* that refers to a traversed composite, be it the owner itself, an        *)
(* ancestor or a composite referred to elsewhere, holds that one node.     *)
C19_FlatSharesNodes ==
    /\ <>(\/ pc = "done"
          \/ pc = "threw" /\ error = "handler"
          \/ op \notin {"none", "defaultFlat"}
          \/ ~isFlatObject(root))
    /\ [](FlatDone =>
            /\ stack = <<>>
            /\ \A x \in DOMAIN visited : Cardinality(ShellsOf(x)) <= 1
            /\ \A n \in 1..Len(out) : \A e \in Items(n) :
                  /\ e.v[1] \notin {"in", "pair"}
                  /\ IsShell(e.v) => visited[out[e.v[2]].src] = e.v
            /\ \A o \in Built : \A i \in 1..Len(heap[o].members) :
                  LET m == heap[o].members[i] IN
                  (heap[o].kind # "map" /\ m.v[1] = "in" /\ FlatTraversed(m.v[2])) =>
                      /\ IsShell(visited[m.v[2]])
                      /\ \E e \in Items(visited[o][2]) : e.v = visited[m.v[2]])

\* obj.son = {parent: obj}: the flattened son points back to the flattened obj.
C19_Witness ==
    /\ FlatDone
    /\ 2 \in Succ(1)
    /\ 1 \in Succ(2)
    /\ IsShell(visited[2])
    /\ \E e \in Items(result[2]) : e.v = visited[2]
    /\ \E e \in Items(visited[2][2]) : e.v = result

-----------------------------------------------------------------------------
\* The nodes held as members by the node n.
NodeSucc(n) == {e.v[2] : e \in {e \in Items(n) : IsShell(e.v)}}

\* The node n is reachable from itself.
NodeOnCycle(n) == n \in ShellClosure(NodeSucc(n), Len(out))

\* The composites defaultFlat reaches from o: its member values and Map keys
\* when o is flattened member by member, none otherwise.
RefSucc(o) == IF FlatTraversed(o) THEN Refs(heap[o]) ELSE {}

RECURSIVE RefClosure(_, _)
RefClosure(S, n) ==
    IF n = 0 THEN S ELSE RefClosure(S \cup UNION {RefSucc(o) : o \in S}, n - 1)

\* The input composite o is reachable from itself.
SourceOnCycle(o) == o \in RefClosure(RefSucc(o), NObj)

\* The pair p of a Map entry reaches its Map through its key or its value.
PairOnCycle(p) ==
    LET m == heap[PairMap(p)].members[PairIndex(p)] IN
    PairMap(p) \in RefClosure({x \in Obj : m.k = In(x) \/ m.v = In(x)}, NObj)

\* Every node reachable from the result is a plain array or a plain record
\* whose members are primitives, nodes or values a toJSON method returned.
FlatPlain ==
    \A n \in ReachableShells(result) :
        /\ out[n].kind \in {"array", "record"}
        /\ out[n].proto = "own"
        /\ \A e \in Items(n) : e.v[1] \in {"prim", "mkey", "shell", "hres"}

(* C20 fails as stated: when defaultFlat is done, every node reachable     *)
(* from the result is a plain array, a plain record or a primitive, and no *)
(* flattened node is reachable from itself.  A cycle of the input is kept  *)
(* as a cycle of flattened nodes.                                          *)
C20_FlatAcyclicPlain ==
    FlatDone =>
        /\ FlatPlain
        /\ \A n \in ReachableShells(result) : ~NodeOnCycle(n)

(* C20 (amended): when defaultFlat is done, every node reachable from the  *)
(* result is a plain array, a plain record, a primitive or the value a     *)
(* toJSON method returned, and the node of a traversed composite, or of an *)
(* entry of a traversed Map, is reachable from itself exactly when its     *)
(* source is reachable from itself through traversed composites of the     *)
(* input: the result is acyclic when the input is, and has the cycles of   *)
(* the input otherwise.                                                    *)
C20_FlatPlainSameCycles ==
    FlatDone =>
        /\ FlatPlain
        /\ \A o \in Built : NodeOnCycle(visited[o][2]) <=> SourceOnCycle(o)
        /\ \A p \in PairIds : IsShell(visited[p]) =>
              (NodeOnCycle(visited[p][2]) <=> PairOnCycle(p))

\* a = {}; a.self = a is flattened to a record that holds itself.
C20_Witness ==
    /\ FlatDone
    /\ heap[1].kind = "record"
    /\ 1 \in Succ(1)
    /\ NodeOnCycle(result[2])
    /\ \E e \in Items(result[2]) : e.v = result

-----------------------------------------------------------------------------
\* The composite o has a flatten handler of its own: a Prtcl.toFlat or a
\* toJSON function that is not defaultFlat; a primitive wrapper is unwrapped
\* before its handlers are looked at.
HasFlatHandler(o) ==
    ~isPrimitiveWraper(o) /\ (heap[o].toJSON = "own" \/ heap[o].toFlat = "own")

(* C21: flatten defers to a value's own handler.  In every state of a      *)
(* defaultFlat call, a composite with a Prtcl.toFlat or toJSON function    *)
(* other than defaultFlat is given no flattened node and none of its       *)
(* members is on the stack; no handler that is defaultFlat itself is       *)
(* invoked; when the call is done, a root with a handler returned the      *)
(* result of one invocation of it, and every such composite that is a      *)
(* member of a traversed composite was replaced by the result of an        *)
(* invocation of its handler.  The code consults toJSON only: a composite  *)
(* whose handler is Prtcl.toFlat is traversed member by member.            *)
C21_FlatDefersToHandler ==
    op = "defaultFlat" =>
        /\ \A o \in Obj : HasFlatHandler(o) =>
              /\ ShellsOf(o) = {}
              /\ \A i \in 1..Len(stack) : stack[i].parent # o
        /\ \A i \in 1..Len(calls) : HasFlatHandler(calls[i][1])
        /\ (pc = "done" /\ isFlatObject(root) /\ HasFlatHandler(Obj2Id(root))) =>
              /\ result = HRes(1)
              /\ calls = <<invoke(Obj2Id(root), "none")>>
        /\ FlatDone =>
              \A o \in Built : \A i \in 1..Len(heap[o].members) :
                  LET m == heap[o].members[i] IN
                  (heap[o].kind # "map" /\ m.v[1] = "in" /\ HasFlatHandler(m.v[2])) =>
                      \E e \in Items(visited[o][2]) :
                          /\ e.v[1] = "hres"
                          /\ calls[e.v[2]][1] = m.v[2]

-----------------------------------------------------------------------------
(* C22: flatten unwraps primitive wrappers.  In every state of a           *)
(* defaultFlat call a Boolean, BigInt, Number, String or Symbol object is  *)
(* given no flattened node, none of its members is on the stack and no     *)
(* handler of it is invoked, whatever toJSON method or properties it has;  *)
(* a call on a wrapper returns its primitive at once; when the call is     *)
(* done, every member of a traversed composite that is a wrapper appears   *)
(* under its name as a primitive.                                          *)
C22_FlatUnwrapsWrappers ==
    op = "defaultFlat" =>
        /\ \A o \in Obj : "wrapper" \in heap[o].tests =>
              /\ ShellsOf(o) = {}
              /\ \A i \in 1..Len(stack) : stack[i].parent # o
              /\ CallsOf(o) = 0
        /\ (isFlatObject(root) /\ "wrapper" \in heap[Obj2Id(root)].tests) =>
              pc = "done" /\ result = P /\ out = <<>> /\ calls = <<>>
        /\ FlatDone =>
              \A o \in Built : \A m \in FlatMembers(o) :
                  (m.v[1] = "in" /\ "wrapper" \in heap[m.v[2]].tests) =>
                      \E e \in Items(visited[o][2]) : e.k = m.k /\ e.v = P

\* {a: w}, w a wrapper object that has a toJSON method and a property of its
\* own, is flattened to {a: primitive}.
C22_Witness ==
    /\ FlatDone
    /\ heap[1].kind = "record"
    /\ Len(heap[1].members) = 1
    /\ heap[1].members[1].v = In(2)
    /\ "wrapper" \in heap[2].tests
    /\ heap[2].toJSON = "own"
    /\ Len(heap[2].members) = 1
    /\ out[result[2]].items = <<[k |-> Key(1), v |-> P]>>
    /\ Len(out) = 1

-----------------------------------------------------------------------------
(* C23: a handler that throws aborts the whole call.  Whenever the error   *)
(* of a handler is noted the call has ended with it and has returned       *)
(* nothing, at the root and at a nested composite of a deep traversal      *)
(* alike; and no step is taken once a call has thrown: the items left on   *)
(* the stack are never processed and the output built so far is never      *)
(* returned.                                                               *)
C23_HandlerThrowAborts ==
    /\ [](error = "handler" => pc = "threw" /\ result = None)
    /\ [][pc # "threw"]_vars

\* The handler of a nested composite threw in clone.deep while an item was
\* still on the stack and the root's output was partly built.
C23_Witness ==
    /\ pc = "threw"
    /\ error = "handler"
    /\ op = "clone.deep"
    /\ stack # <<>>
    /\ out # <<>>
    /\ calls # <<>>
    /\ calls[Len(calls)][1] # Obj2Id(root)
    /\ result = None

-----------------------------------------------------------------------------
\* Date, RegExp, Error, primitive wrapper or structuredClone-supported
\* built-in without a Prtcl.toClone handler.
IsOpaque(o) == heap[o].kind = "opaque" /\ ~heap[o].custom

-----------------------------------------------------------------------------
(* C25: clone mode preserves kind and shape.  In every state of a clone,   *)
(* clone.shallow or clone.deep call, every output built by the default     *)
(* strategy, for the root or for a nested composite, has the kind of its   *)
(* source: an array for an array, a Map for a Map, a Set for a Set, a      *)
(* record for a record, and the class of its source when the source is an  *)
(* instance of a class.  The code builds the output of a record from an    *)
(* object literal, so the instance of a class is copied to a plain record. *)
C25_KindAndShapePreserved ==
    op \in CopyOps =>
        \A n \in 1..Len(out) :
            /\ out[n].kind = heap[out[n].src].kind
            /\ heap[out[n].src].instance => out[n].proto = "source"

-----------------------------------------------------------------------------
\* The order of checks the classification is said to follow.
CheckOrder ==
    <<"custom", "structuredClone", "wrapper", "nativeError", "Error", "Date",
      "RegExp", "array", "map", "set", "record">>

\* The composite o passes the check t; every composite passes the last one.
Passes(o, t) ==
    CASE t = "custom" -> heap[o].custom
      [] t \in {"array", "map", "set"} -> heap[o].kind = t
      [] t = "record" -> TRUE
      [] OTHER -> t \in heap[o].tests

\* The first check of the order that o passes.
StrategyOf(o) ==
    CheckOrder[CHOOSE i \in 1..Len(CheckOrder) :
                  /\ Passes(o, CheckOrder[i])
                  /\ \A j \in 1..(i - 1) : ~Passes(o, CheckOrder[j])]

\* The strategies that acted on o so far: a handler invocation, the rule that
\* made its finished copy, the kind of the shell created for it.
HandledBy(o) ==
    {"custom" : i \in {j \in 1..Len(calls) : calls[j][1] = o}}
    \cup {copies[n] : n \in {j \in 1..Len(copies) :
                               \/ visited[o] = Copy(j)
                               \/ root = In(o) /\ result = Copy(j)}}
    \cup {out[n].kind : n \in ShellsOf(o)}

(* C26: classification is deterministic and total.  In every state of a    *)
(* clone, clone.shallow or clone.deep call no composite was handled by a   *)
(* strategy other than the first check it passes in the order custom       *)
(* handler, structuredClone-supported built-in, primitive wrapper, native  *)
(* error, other Error, Date, RegExp, Array, Map, Set, Record; the root of  *)
(* the call and every composite the traversal registered was handled by    *)
(* exactly that one strategy; and an object that passes no check, with or  *)
(* without members, was handled as a Record.                               *)
C26_ClassificationTotal ==
    op \in CopyOps =>
        \A o \in Obj :
            /\ HandledBy(o) \subseteq {StrategyOf(o)}
            /\ (root = In(o) \/ visited[o] # None) => HandledBy(o) = {StrategyOf(o)}
            /\ (HandledBy(o) # {} /\ ~heap[o].custom /\ heap[o].tests = {}
                  /\ heap[o].kind \notin {"array", "map", "set"}) =>
                    \A n \in ShellsOf(o) : out[n].kind = "record"

\* [s] with s a String object, which passes the structuredClone check and the
\* wrapper check: the deep clone built an array and copied s by
\* structuredClone.
C26_Witness ==
    /\ DeepDone
    /\ heap[1].kind = "array"
    /\ Len(heap[1].members) = 1
    /\ heap[1].members[1].v = In(2)
    /\ heap[2].tests = {"structuredClone", "wrapper"}
    /\ visited[2] = Copy(1)
    /\ copies = <<"structuredClone">>
    /\ HandledBy(2) = {"structuredClone"}
    /\ HandledBy(1) = {"array"}

-----------------------------------------------------------------------------
\* clone, clone.shallow or defaultClone with a hint other than 'deep' returned
\* from a call on an array or record that has no Prtcl.toClone handler.
RootShallowDone ==
    /\ pc = "done"
    /\ isObject(root)
    /\ heap[Obj2Id(root)].kind \in {"array", "record"}
    /\ ~heap[Obj2Id(root)].custom
    /\ \/ op \in {"clone", "clone.shallow"}
       \/ op = "defaultClone" /\ callHint # "deep"

(* C27: shallow cloning keeps the root's frozen flag.  When clone,         *)
(* clone.shallow or defaultClone with a hint other than 'deep' has         *)
(* returned from a call on an array or record without custom handler, the  *)
(* result is a new container that is frozen if and only if the input is.   *)
C27_ShallowKeepsFrozen ==
    RootShallowDone =>
        /\ IsShell(result)
        /\ out[result[2]].src = Obj2Id(root)
        /\ out[result[2]].frozen <=> heap[Obj2Id(root)].frozen

\* defaultClone with hint 'shallow' returned a frozen copy of a frozen record
\* with members.
C27_Witness ==
    /\ RootShallowDone
    /\ op = "defaultClone"
    /\ callHint = "shallow"
    /\ heap[1].kind = "record"
    /\ heap[1].frozen
    /\ heap[1].members # <<>>
    /\ out[result[2]].frozen
    /\ out[result[2]].items = heap[1].members

-----------------------------------------------------------------------------
\* A value made by the call before this one.
Earlier(v) == v[1] = "earlier"

(* C28: no traversal state survives a call.  Every call, the first one and *)
(* the one made after it on the same input, starts with an empty stack and *)
(* an empty registry; the step that begins a traversal leaves its own root *)
(* as the only registered composite and the members of that root as the    *)
(* only items on the stack; and in the second call no registry entry, no   *)
(* member of an output and no result is a value made by the first call:    *)
(* the two results share no output composite.                              *)
C28_NoStateSurvives ==
    /\ [](pc = "idle" =>
            /\ stack = <<>>
            /\ out = <<>>
            /\ \A x \in DOMAIN visited : visited[x] = None)
    /\ [][(pc = "idle" /\ pc' = "draining") =>
            /\ \A x \in DOMAIN visited' : visited'[x] # None => In(x) = root
            /\ visited'[Obj2Id(root)] = output'
            /\ \A i \in 1..Len(stack') : stack'[i].parent = Obj2Id(root)]_vars
    /\ [](first # <<>> =>
            /\ ~Earlier(result)
            /\ \A x \in DOMAIN visited : ~Earlier(visited[x])
            /\ \A n \in 1..Len(out) : \A e \in Items(n) :
                  ~Earlier(e.v) /\ ~Earlier(e.k))

\* clone.deep was called twice on a container that holds a container: the
\* second call built two shells of its own, as the first had.
C28_Witness ==
    /\ first # <<>>
    /\ DeepDone
    /\ Len(out) = 2
    /\ Len(first[1].out) = 2
    /\ \E e \in Items(result[2]) : IsShell(e.v) /\ e.v # result

-----------------------------------------------------------------------------
\* s is an initial part of t.
IsPrefix(s, t) == Len(s) <= Len(t) /\ s = SubSeq(t, 1, Len(s))

-----------------------------------------------------------------------------
(* C30: misuse on a primitive root is fatal.  defaultClone called on a     *)
(* primitive throws its error whatever the hint: it builds nothing and     *)
(* returns no value; called on a function it returns that function and     *)
(* builds nothing.                                                         *)
C30_PrimitiveRootFatal ==
    op = "defaultClone" =>
        /\ callHint \in CloneHint
        /\ root = P =>
              /\ pc = "threw"
              /\ error = "defaultClone can not be called in a primitive"
              /\ result = None
              /\ out = <<>> /\ stack = <<>>
        /\ root = F =>
              /\ pc = "done"
              /\ error = "none"
              /\ result = F
              /\ out = <<>> /\ stack = <<>>

\* defaultClone.call(primitive, 'shallow') threw.
C30_Witness ==
    /\ op = "defaultClone"
    /\ root = P
    /\ callHint = "shallow"
    /\ pc = "threw"
    /\ result = None

-----------------------------------------------------------------------------
(* @prtcl/prtcl: the guard function Prtcl.impl and the clone decorators.   *)

\* The names of the protocols: the keys of Implements.
ProtocolName ==
    {"clone", "compare", "equals", "mutableClone", "readonlyClone", "unwrap"}

\* The names impl is called with: the protocols, and 'flat', which is none.
GuardNames == ProtocolName \cup {"flat"}

\* toObject(value): a function or an object is taken as it is, a primitive is
\* wrapped into a new object that inherits from the prototype of its type.
toObject(value) ==
    IF value.type \in {"function", "object"}
    THEN value
    ELSE [type |-> "object", own |-> NoSlots, proto |-> value.proto]

\* symbol in obj: the object or its prototype chain has the property.
hasProperty(obj, symbol) ==
    obj.own[symbol] # "absent" \/ obj.proto[symbol] # "absent"

\* A read that misses what is inherited.
getOwn(obj, symbol) == obj.own[symbol]

\* obj[symbol]: the own property when there is one, the inherited otherwise.
get(obj, symbol) ==
    IF obj.own[symbol] # "absent" THEN obj.own[symbol] ELSE obj.proto[symbol]

\* symbol in obj && typeof obj[symbol] === 'function'
isMethod(obj, symbol) ==
    IF hasProperty(obj, symbol) /\ get(obj, symbol) = "function"
    THEN "true" ELSE "false"

\* impl(protocol, value): "true", "false", or "throws" when the switch is left.
Prtcl_impl(protocol, value) ==
    IF value.type \in {"null", "undefined"}
    THEN "false"
    ELSE LET obj == toObject(value) IN
         CASE protocol = "clone" -> isMethod(obj, "toClone")
           [] protocol = "compare" -> isMethod(obj, "compareTo")
           [] protocol = "equals" -> isMethod(obj, "equalsTo")
           [] protocol = "mutableClone" -> isMethod(obj, "toMutableClone")
           [] protocol = "readonlyClone" -> isMethod(obj, "toReadonlyClone")
           [] protocol = "unwrap" -> isMethod(obj, "toUnwrap")
           [] OTHER -> "throws"

\* @cloneBy(callback): Object.defineProperty(target.prototype, Prtcl.toClone,
\* { value() { return callback(this) } }).
cloneBy(target) == [target EXCEPT !.proto["toClone"] = "function"]

\* @useToClone: an initializer that runs Object.defineProperty(this,
\* Prtcl.toClone, { value: target }) on every instance.
useToClone(target) == [target EXCEPT !.init = @ \cup {"toClone"}]

\* new C(): the initializers have run on the new object.
construct(class) ==
    [type |-> "object",
     own |-> [s \in Symbols |-> IF s \in class.init THEN "function" ELSE "absent"],
     proto |-> class.proto]

GuardIdle ==
    /\ heap = [o \in Obj |-> Blank]
    /\ root = P
    /\ op = "none"
    /\ callHint = "none"
    /\ pc = "idle"
    /\ stack = <<>>
    /\ visited = [o \in Obj \cup PairIds |-> None]
    /\ out = <<>>
    /\ output = None
    /\ calls = <<>>
    /\ copies = <<>>
    /\ result = None
    /\ error = "none"
    /\ popped = <<>>
    /\ first = <<>>
    /\ frames = <<>>

\* A value is at hand, or a class is being declared.
GuardInit ==
    /\ GuardIdle
    /\ \/ \E v \in GuardValues : guard = [NoGuard EXCEPT !.phase = "value", !.value = v]
       \/ \E c \in GuardClasses : guard = [NoGuard EXCEPT !.phase = "class", !.class = c]

GuardFrame ==
    UNCHANGED <<heap, root, op, callHint, pc, stack, visited, out, output, calls,
                copies, result, error, popped, first, frames>>

CloneByDecorator ==
    /\ guard.phase = "class"
    /\ "cloneBy" \notin guard.decorators
    /\ guard' = [guard EXCEPT !.class = cloneBy(@), !.decorators = @ \cup {"cloneBy"}]
    /\ GuardFrame

UseToCloneDecorator ==
    /\ guard.phase = "class"
    /\ "useToClone" \notin guard.decorators
    /\ guard' = [guard EXCEPT !.class = useToClone(@),
                              !.decorators = @ \cup {"useToClone"}]
    /\ GuardFrame

NewInstance ==
    /\ guard.phase = "class"
    /\ guard' = [guard EXCEPT !.phase = "value", !.value = construct(guard.class)]
    /\ GuardFrame

ImplCall ==
    /\ guard.phase = "value"
    /\ \E protocol \in GuardNames :
          guard' = [guard EXCEPT !.phase = "asked",
                                 !.protocol = protocol,
                                 !.outcome = Prtcl_impl(protocol, guard.value)]
    /\ GuardFrame

GuardNext == CloneByDecorator \/ UseToCloneDecorator \/ NewInstance \/ ImplCall

GuardSpec == GuardInit /\ [][GuardNext]_vars

\* The symbol of a protocol, "none" for a name that is no protocol.
SymbolOf(protocol) ==
    CASE protocol = "clone" -> "toClone"
      [] protocol = "compare" -> "compareTo"
      [] protocol = "equals" -> "equalsTo"
      [] protocol = "mutableClone" -> "toMutableClone"
      [] protocol = "readonlyClone" -> "toReadonlyClone"
      [] protocol = "unwrap" -> "toUnwrap"
      [] OTHER -> "none"

\* What the value v holds under the symbol s, its own before the inherited.
MemberUnder(v, s) ==
    IF s \notin Symbols THEN "absent"
    ELSE IF v.own[s] # "absent" THEN v.own[s]
    ELSE v.proto[s]

Nullish(v) == v.type \in {"null", "undefined"}

\* What holds of every answer of impl whatever the protocol name.
GuardAnswers ==
    /\ guard.outcome = "true" <=>
          /\ ~Nullish(guard.value)
          /\ MemberUnder(guard.value, SymbolOf(guard.protocol)) = "function"
    /\ Nullish(guard.value) => guard.outcome = "false"
    /\ (/\ ~Nullish(guard.value)
        /\ guard.protocol \in ProtocolName
        /\ MemberUnder(guard.value, SymbolOf(guard.protocol)) # "function") =>
          guard.outcome = "false"
    /\ (guard.decorators # {} /\ guard.protocol = "clone") => guard.outcome = "true"

(* C31 fails as stated: impl returns true exactly when the value is        *)
(* neither null nor undefined and the member under the protocol's symbol   *)
(* is a function, false for null, undefined and a non-function member, and *)
(* throws for every protocol name that does not exist; an instance of a    *)
(* class decorated with cloneBy or with a useToClone method satisfies      *)
(* impl('clone', instance).  For null and undefined impl returns false     *)
(* before it looks at the name.                                            *)
C31_ImplThrowsOnEveryUnknownName ==
    guard.phase = "asked" =>
        /\ GuardAnswers
        /\ guard.protocol \notin ProtocolName => guard.outcome = "throws"

(* C31 (amended): impl returns true exactly when the value is neither null *)
(* nor undefined and the member under the protocol's symbol, own or        *)
(* inherited, is a function; it returns false for null and undefined       *)
(* whatever the protocol name, and false for a non-function member; for a  *)
(* value that is neither null nor undefined it throws when the protocol    *)
(* name does not exist; an instance of a class decorated with cloneBy or   *)
(* having a method decorated with useToClone satisfies                     *)
(* impl('clone', instance).                                                *)
C31_ImplGuard ==
    guard.phase = "asked" =>
        /\ GuardAnswers
        /\ guard.protocol \notin ProtocolName =>
              guard.outcome = (IF Nullish(guard.value) THEN "false" ELSE "throws")

\* impl('clone', new C()) answered true for a class C decorated with cloneBy
\* alone: the method is found on the prototype.
C31_Witness ==
    /\ guard.phase = "asked"
    /\ guard.decorators = {"cloneBy"}
    /\ guard.protocol = "clone"
    /\ guard.value.own["toClone"] = "absent"
    /\ guard.outcome = "true"

-----------------------------------------------------------------------------
\* The errors raised when the owner of a popped item has no output.
ParentErrors ==
    {"ParentOut not defined", "copyParent not defined", "FlatParent not defined"}

(* C32: the parent lookup of the deep traversals never fails.  In every    *)
(* state of clone.deep, of the deep default methods and of defaultFlat,    *)
(* the owner of every item on the work stack is registered in the visited  *)
(* map with an output that exists, and none of the errors 'ParentOut not   *)
(* defined', 'copyParent not defined', 'FlatParent not defined' is thrown. *)
C32_ParentAlwaysRegistered ==
    /\ \A i \in 1..Len(stack) :
          /\ visited[stack[i].parent] # None
          /\ visited[stack[i].parent][1] = "shell"
          /\ visited[stack[i].parent][2] \in 1..Len(out)
          /\ out[visited[stack[i].parent][2]].src = stack[i].parent
    /\ error \notin ParentErrors

\* The members of a nested composite are on the stack: their owner is not the
\* root, and it was registered when it was met.
C32_Witness ==
    /\ pc = "draining"
    /\ \E i \in 1..Len(stack) :
          /\ stack[i].parent # Obj2Id(root)
          /\ visited[stack[i].parent][1] = "shell"

-----------------------------------------------------------------------------
\* Number of enumerated members of the composites in S together.
RECURSIVE MembersIn(_)
MembersIn(S) ==
    IF S = {} THEN 0
    ELSE LET o == CHOOSE x \in S : TRUE IN
         Len(heap[o].members) + MembersIn(S \ {o})

\* No item occurs twice in the sequence s.
NoItemTwice(s) == \A i, j \in 1..Len(s) : s[i] = s[j] => i = j

\* The traversal of a deep clone is running or has ended.
DeepTraversal == op \in DeepOps /\ output # None

(* C33: each reachable composite is processed once.  In every state of one *)
(* deep traversal every composite handled by the default strategy has a    *)
(* single shell, its registration is never replaced, and each of its       *)
(* members was pushed once: the items popped and the items waiting are,    *)
(* without repetition, the members of the composites built so far.  When   *)
(* the traversal is done every default-handled composite referenced by a   *)
(* built one is built, and the number of items popped equals the number of *)
(* members of the built composites.                                        *)
C33_EachCompositeOnce ==
    /\ [](DeepTraversal =>
            /\ \A o \in Obj :
                  Cardinality(ShellsOf(o)) = (IF visited[o][1] = "shell" THEN 1 ELSE 0)
            /\ NoItemTwice(popped \o stack)
            /\ Len(popped) + Len(stack) = MembersIn(Built)
            /\ pc = "done" =>
                  /\ Len(popped) = MembersIn(Built)
                  /\ Obj2Id(root) \in Built
                  /\ \A v \in Built : \A x \in Succ(v) : visited[x] # None)
    /\ [][pc = "draining" =>
            \A o \in Obj : visited[o] # None => visited'[o] = visited[o]]_vars

\* a = {b}; b = {a}: the deep clone is done after two items, one for each
\* member, though a is met twice.
C33_Witness ==
    /\ DeepDone
    /\ Built = {1, 2}
    /\ 2 \in Succ(1)
    /\ 1 \in Succ(2)
    /\ Len(popped) = 2

-----------------------------------------------------------------------------
(* Calls on graphs whose arrays may have holes.                            *)

SparseInit ==
    /\ \/ root = In(1) /\ heap \in SparseGraphs
       \/ root \in {P, F} /\ heap = [o \in Obj |-> Blank]
    /\ op = "none"
    /\ callHint = "none"
    /\ pc = "idle"
    /\ stack = <<>>
    /\ visited = [o \in Obj \cup PairIds |-> None]
    /\ out = <<>>
    /\ output = None
    /\ calls = <<>>
    /\ copies = <<>>
    /\ result = None
    /\ error = "none"
    /\ popped = <<>>
    /\ first = <<>>
    /\ guard = NoGuard
    /\ frames = <<>>

SparseSpec == SparseInit /\ [][Next]_vars

\* The tag getItemType or getItemState gave the item.
TagOf(item) == IF op = "clone.deep" THEN item.type ELSE item.state

\* The items the traversal took from the item lists so far: those popped
\* and those waiting.
Pushed == popped \o stack

\* The members of o that an enumeration of o calls back for.
Enumerated(o) ==
    {i \in 1..Len(heap[o].members) : heap[o].members[i].v # Hole}

\* The place of the item among the members of its owner, counted from 1.
MemberIndex(item) ==
    CHOOSE i \in 1..Len(heap[item.parent].members) :
        heap[item.parent].members[i].k = item.key

\* The place in popped of the item that made the traversal build c, 0 for
\* the root and for a composite not built by a popped item.
BuiltAt(c) ==
    LET Met == {i \in 1..Len(popped) : popped[i].value = In(c)} IN
    IF c = Obj2Id(root) \/ Met = {} \/ c \notin Built THEN 0
    ELSE CHOOSE i \in Met : \A j \in Met : i <= j

(* C34: pop order of the deep traversal.  In every state of a deep         *)
(* traversal: every built owner with at least one enumerated member has    *)
(* exactly one item tagged 'head', also when it has a single member, and   *)
(* that item is the one of its first member; the items of one owner are    *)
(* popped in reverse enumeration order, so the 'head' item is popped when  *)
(* no item of its owner is waiting; and every item pushed while a member   *)
(* of an owner is processed is popped before the next member of that       *)
(* owner.                                                                  *)
C34_PopOrder ==
    DeepTraversal =>
        /\ \A o \in Built :
              Enumerated(o) # {} =>
                  Cardinality({i \in 1..Len(Pushed) :
                                  /\ Pushed[i].parent = o
                                  /\ TagOf(Pushed[i]) = "head"}) = 1
        /\ \A i \in 1..Len(Pushed) :
              (Pushed[i].parent \in Obj /\ TagOf(Pushed[i]) = "head") =>
                  MemberIndex(Pushed[i]) = 1
        /\ \A i, j \in 1..Len(popped) :
              (i < j /\ popped[i].parent \in Obj
                 /\ popped[i].parent = popped[j].parent) =>
                  /\ MemberIndex(popped[i]) > MemberIndex(popped[j])
                  /\ \A c \in Built :
                        (i <= BuiltAt(c) /\ BuiltAt(c) < j) =>
                            /\ \A k \in 1..Len(popped) :
                                  popped[k].parent = c => k < j
                            /\ \A k \in 1..Len(stack) : stack[k].parent # c
        /\ \A i \in 1..Len(popped) :
              (popped[i].parent \in Obj /\ TagOf(popped[i]) = "head") =>
                  \A k \in 1..Len(stack) : stack[k].parent # popped[i].parent

-----------------------------------------------------------------------------
(* C35: clone.deep preserves member order.  When clone.deep is done, the   *)
(* output of every built Map, Set and record holds its members in the      *)
(* order in which the source enumerates them: the i-th entry inserted into *)
(* the output is the one of the i-th member of the source.                 *)
C35_MemberOrderPreserved ==
    DeepDone =>
        \A v \in Built :
            heap[v].kind \in {"map", "set", "record"} =>
                LET items == out[visited[v][2]].items IN
                /\ Len(items) = Len(heap[v].members)
                /\ \A i \in 1..Len(items) : items[i].k = MemberOut(v, i).k

-----------------------------------------------------------------------------
\* The composites clone.deep does not traverse: those with a handler and the
\* opaque built-ins.
Finished(o) == heap[o].custom \/ heap[o].kind = "opaque"

\* The invocations of the handler of o.
InvocationsOf(o) == {i \in 1..Len(calls) : calls[i][1] = o}

(* C36: in clone.deep the result of a nested handler and the copy of a     *)
(* nested opaque built-in are registered under their source.  While the    *)
(* traversal runs, a composite whose handler has returned is registered    *)
(* with the value of that one invocation and its handler is not invoked    *)
(* again; every copy made is registered for one source.  When the call is  *)
(* done, all the members that refer to one such composite hold the one     *)
(* value registered for it.                                                *)
C36_FinishedResultShared ==
    (op = "clone.deep" /\ output # None) =>
        /\ \A o \in Obj :
              /\ Cardinality(InvocationsOf(o)) <= 1
              /\ (InvocationsOf(o) # {} /\ pc # "threw") =>
                    \E i \in InvocationsOf(o) : visited[o] = HRes(i)
              /\ visited[o][1] = "hres" => visited[o][2] \in InvocationsOf(o)
        /\ Cardinality({o \in Obj : visited[o][1] = "copy"}) = Len(copies)
        /\ \A o \in Obj : visited[o][1] = "copy" => visited[o][2] \in 1..Len(copies)
        /\ pc = "done" =>
              \A v \in Built : \A i \in 1..Len(heap[v].members) :
                  LET x == heap[v].members[i].v IN
                  (isObject(x) /\ Finished(Obj2Id(x))) =>
                      /\ visited[Obj2Id(x)][1] \in {"hres", "copy"}
                      /\ \E e \in Items(visited[v][2]) :
                            /\ e.k = MemberOut(v, i).k
                            /\ e.v = visited[Obj2Id(x)]

\* obj = [d, d] with d a Date: one copy was made and both elements of the
\* clone are that copy.
C36_Witness ==
    /\ DeepDone
    /\ heap[1].kind = "array"
    /\ Len(heap[1].members) = 2
    /\ heap[1].members[1].v = In(2)
    /\ heap[1].members[2].v = In(2)
    /\ heap[2].kind = "opaque"
    /\ ~heap[2].custom
    /\ Len(copies) = 1
    /\ \A e \in Items(result[2]) : e.v = Copy(1)
    /\ Len(out[result[2]].items) = 2

-----------------------------------------------------------------------------
(* clone.deep called by a handler that clone.deep invoked.                 *)

\* A handler that is running calls clone.deep at most this deep.
MaxDepth == 2

\* Locals that the call made by the handler has written into: what the
\* inner call registered is found in the registry of the outer call.
ResumeLeaked(frame, callee) ==
    [stack |-> frame.stack,
     visited |-> [x \in DOMAIN frame.visited |->
                    IF callee.visited[x] # None
                    THEN callee.visited[x]
                    ELSE frame.visited[x]],
     output |-> frame.output]

\* output, stack and visited are constants of the function body: when the
\* handler returns the outer call goes on with its own, whatever the call
\* made by the handler did with its own.
Resume(frame, callee) ==
    [stack |-> frame.stack, visited |-> frame.visited, output |-> frame.output]

\* The handler of a nested composite, invoked by internalClone(value, 'deep'),
\* calls clone.deep on one of the members of its composite, a composite that
\* the default strategy handles: the outer call waits and the inner call
\* starts with an output, a stack and a registry of its own.
HandlerCallsDeep ==
    /\ pc = "draining"
    /\ op = "clone.deep"
    /\ stack # <<>>
    /\ Len(frames) < MaxDepth
    /\ Len(out) < MaxShells
    /\ UNCHANGED <<guard, heap, root, op, callHint, pc, copies, result, error, first>>
    /\ LET item == stack[popIndex(stack)]
           rest == Without(stack, popIndex(stack))
       IN  /\ item # NoItem
           /\ visited[item.parent] # None
           /\ isObject(item.value)
           /\ ~has(visited, Obj2Id(item.value))
           /\ internalClone(Obj2Id(item.value)) = "custom"
           /\ \E m \in 1..Len(heap[Obj2Id(item.value)].members) :
                LET x == heap[Obj2Id(item.value)].members[m].v IN
                /\ isObject(x)
                /\ internalClone(Obj2Id(x)) = "none"
                /\ calls' = Append(calls, invoke(Obj2Id(item.value), "deep"))
                /\ popped' = Append(popped, item)
                /\ frames' = Append(frames,
                                [stack |-> rest, visited |-> visited,
                                 output |-> output, item |-> item,
                                 call |-> Len(calls')])
                /\ out' = Append(out, createObjectClone(Obj2Id(x)))
                /\ output' = Shell(Len(out'))
                /\ stack' = getItems(Obj2Id(x))
                /\ visited' = [newWeakMap(visited) EXCEPT ![Obj2Id(x)] = output']

\* The inner call has returned its output to the handler, and the handler
\* returns its value or throws: the outer call goes on after
\* internalClone(value, 'deep'), registers the value and assigns it.
HandlerReturns ==
    /\ pc = "draining"
    /\ op = "clone.deep"
    /\ stack = <<>>
    /\ frames # <<>>
    /\ UNCHANGED <<guard, root, op, callHint, calls, copies, result, popped,
                   first>>
    /\ LET frame == frames[Len(frames)]
           caller == Resume(frame, [stack |-> stack, visited |-> visited,
                                    output |-> output])
           o == Obj2Id(frame.item.value)
       IN  /\ frames' = SubSeq(frames, 1, Len(frames) - 1)
           /\ stack' = caller.stack
           /\ output' = caller.output
           /\ \/ /\ visited' = set(caller.visited, o, HRes(frame.call))
                 /\ Assign(frame.item, getParentOutput(caller.visited, frame.item.parent),
                           HRes(frame.call), out)
              \/ /\ Throw("handler")
                 /\ visited' = caller.visited
                 /\ UNCHANGED <<heap, out>>

ReentrantNext == Next \/ HandlerCallsDeep \/ HandlerReturns

ReentrantSpec == Init /\ [][ReentrantNext]_vars

\* The step suspends the running call: a handler calls clone.deep.
Enters == Len(frames') = Len(frames) + 1

\* The step resumes the call that was suspended last: its handler returned.
Returns == Len(frames') = Len(frames) - 1 /\ pc' # "threw"

-----------------------------------------------------------------------------
(* The input graph is read only.                                           *)

\* The step leaves every composite of the input graph as it was.
InputKept ==
    \A o \in Obj : /\ heap'[o].members = heap[o].members
                   /\ heap'[o].frozen = heap[o].frozen

\* The object the next assignment of a clone.deep traversal will act on is
\* an output the call made itself.
NextTargetIsOutput ==
    (pc = "draining" /\ op = "clone.deep" /\ stack # <<>>
       /\ stack[Len(stack)] # NoItem)
      => /\ visited[stack[Len(stack)].parent] # None
         /\ visited[stack[Len(stack)].parent][1] = "shell"
         /\ out[visited[stack[Len(stack)].parent][2]].src = stack[Len(stack)].parent

(* C38: the input graph is left unchanged.  No step of a clone, a          *)
(* clone.shallow, a clone.deep or a defaultFlat call changes the members,  *)
(* the member values or the frozen flag of a composite of the input graph: *)
(* every assignment and every freeze acts on an output the call created.   *)
C38_InputGraphUnchanged == [][InputKept]_vars /\ []NextTargetIsOutput

\* A deep clone of a frozen root has returned: its output was filled with a
\* clone of a member composite and frozen, and the root is as it was given.
C38_Witness ==
    /\ pc = "done"
    /\ op = "clone.deep"
    /\ IsShell(result)
    /\ out[result[2]].frozen
    /\ \E i \in 1..Len(out[result[2]].items) : IsShell(out[result[2]].items[i].v)
    /\ heap[Obj2Id(root)].frozen
    /\ \E i \in 1..Len(heap[Obj2Id(root)].members) :
          heap[Obj2Id(root)].members[i].v[1] = "in"

====
